---- MODULE Spec2Model ----
(***************************************************************************)
(* Token pool of the bpaf command line parser (src/src/args.rs).           *)
(*                                                                         *)
(* Raw command line items and long names are sequences of one-character    *)
(* strings; indices into the token list are 0-based as in the source, the  *)
(* sequences holding them are 1-based, hence At/SetAt.  Option<usize> is   *)
(* an integer with None for the absent value.  The `autocomplete` cargo    *)
(* feature is off: every #[cfg(feature = "autocomplete")] item is left     *)
(* out.                                                                    *)
(***************************************************************************)
EXTENDS Integers, Sequences, FiniteSets, TLC

VARIABLES
    args,         \* raw command line handed to construct
    short_flags,  \* known flag letters handed to construct
    short_args,   \* known value-taking letters handed to construct
    err,          \* construction-time error written by construct
    items,        \* State::items
    item_state,   \* State::item_state
    remaining,    \* State::remaining
    current,      \* State::current
    scope,        \* State::scope
    pc,           \* "start" before construct, "built" after, "done" in SpecTok
    last,         \* the last operation applied and what it returned
    head,         \* Args::head, index of the leftmost token consumed
    depth,        \* Args::depth
    conflicts,    \* Args::conflicts
    parser,       \* the parser eval is called on
    result        \* what eval returned

vars == <<args, short_flags, short_args, err, items, item_state, remaining,
          current, scope, pc, last, head, depth, conflicts, parser, result>>

-----------------------------------------------------------------------------
(* Bounds and input alphabets *)

MaxArgs == 2
MaxWin == 1

Letters == {"a", "b"}

\* raw items the command lines are built from
RawItems ==
    { <<"-", "-">>,                         \* --
      <<"-", "a">>,                         \* -a
      <<"-", "b">>,                         \* -b
      <<"-", "a", "b">>,                    \* -ab
      <<"-", "a", "a">>,                    \* -aa
      <<"-", "a", "=", "1">>,               \* -a=1
      <<"-", "a", "=", "-", "1">>,          \* -a=-1
      <<"-", "-", "a", "b">>,               \* --ab
      <<"-", "-", "a", "b", "=", "1">>,     \* --ab=1
      <<"-", "-", "a", "b", "=", "-", "1">>,\* --ab=-1
      <<"1">>,                              \* 1
      <<"a", "b">> }                        \* ab

RECURSIVE SeqsUpTo(_, _)
SeqsUpTo(S, n) ==
    IF n = 0 THEN { <<>> }
    ELSE LET shorter == SeqsUpTo(S, n - 1)
         IN shorter \cup { Append(s, x) : s \in shorter, x \in S }

Min(S) == CHOOSE x \in S : \A y \in S : x <= y
Max(S) == CHOOSE x \in S : \A y \in S : x >= y

\* Option::None of an Option<usize>: an integer no index equals
None == 0 - 1

At(seq, ix) == seq[ix + 1]
SetAt(seq, ix, v) == [seq EXCEPT ![ix + 1] = v]

-----------------------------------------------------------------------------
(* Arg, ItemState, Range, Message *)

Short(c, adj, os) == [kind |-> "Short", name |-> <<c>>, adj |-> adj, os |-> os]
Long(name, adj, os) == [kind |-> "Long", name |-> name, adj |-> adj, os |-> os]
Word(os) == [kind |-> "Word", name |-> <<>>, adj |-> FALSE, os |-> os]
PosWord(os) == [kind |-> "PosWord", name |-> <<>>, adj |-> FALSE, os |-> os]

Unparsed == [tag |-> "Unparsed", win |-> None]
Conflict(win) == [tag |-> "Conflict", win |-> win]
Parsed == [tag |-> "Parsed", win |-> None]

ItemState == {Unparsed, Parsed} \cup { Conflict(w) : w \in 0..MaxWin }

ItemState_parsed(s) == s.tag = "Parsed"
ItemState_present(s) == s.tag \in {"Unparsed", "Conflict"}

Range(start, end) == [start |-> start, end |-> end]
Range_contains(r, ix) == r.start <= ix /\ ix < r.end

NoMessage == [kind |-> "None", ix |-> None, short |-> <<>>]
Ambiguity(ix, short) == [kind |-> "Ambiguity", ix |-> ix, short |-> short]

-----------------------------------------------------------------------------
(* split_os_argument: `-name`, `-name=value`, `--name`, `--name=value` *)

NoSplit == [some |-> FALSE, ty |-> "None", name |-> <<>>, has_arg |-> FALSE,
            arg |-> Word(<<>>)]

EqPos(os, from) ==
    LET eqs == { i \in from..Len(os) : os[i] = "=" }
    IN IF eqs = {} THEN 0 ELSE Min(eqs)

split_os_argument(os) ==
    IF Len(os) < 2 \/ os[1] # "-" THEN NoSplit
    ELSE LET is_long == os[2] = "-"
             from == IF is_long THEN 3 ELSE 2
             eq == EqPos(os, from)
             name == IF eq = 0 THEN SubSeq(os, from, Len(os))
                     ELSE SubSeq(os, from, eq - 1)
         IN IF name = <<>> THEN NoSplit
            ELSE [some |-> TRUE,
                  ty |-> IF is_long THEN "Long" ELSE "Short",
                  name |-> name,
                  has_arg |-> eq # 0,
                  arg |-> IF eq = 0 THEN Word(<<>>)
                          ELSE Word(SubSeq(os, eq + 1, Len(os)))]

-----------------------------------------------------------------------------
(* State::construct *)

can_be_flags(short, flags) == \A ix \in 1..Len(short) : short[ix] \in flags

\* can_be_arg looking at every letter instead of the first one
can_be_arg_any_letter(short, argletters) ==
    \E ix \in 1..Len(short) : short[ix] \in argletters

can_be_arg(short, argletters) == short[1] \in argletters

\* disambiguate without the `break`: tokenizing goes on after an ambiguity
disambiguate_goes_on(acc, short, os, flags, argletters) ==
    LET flags_ok == can_be_flags(short, flags)
        arg_ok == can_be_arg(short, argletters)
    IN CASE flags_ok /\ arg_ok ->
              [acc EXCEPT !.err = Ambiguity(Len(acc.items), short),
                          !.items = Append(@, Word(os))]
         [] flags_ok /\ ~arg_ok ->
              [acc EXCEPT !.items = @ \o
                  [ix \in 1..Len(short) |->
                      Short(short[ix], FALSE, IF ix = 1 THEN os ELSE <<>>)]]
         [] ~flags_ok /\ arg_ok ->
              [acc EXCEPT !.items = @ \o
                  << Short(short[1], TRUE, os),
                     Word(SubSeq(short, 2, Len(short))) >>]
         [] OTHER ->
              [acc EXCEPT !.items = Append(@, Word(os))]

\* the match on (can_be_flags, can_be_arg) for a short name with a body;
\* stop is the `break` out of the loop over the raw items
disambiguate(acc, short, os, flags, argletters) ==
    LET flags_ok == can_be_flags(short, flags)
        arg_ok == can_be_arg(short, argletters)
    IN CASE flags_ok /\ arg_ok ->
              [acc EXCEPT !.err = Ambiguity(Len(acc.items), short),
                          !.items = Append(@, Word(os)),
                          !.stop = TRUE]
         [] flags_ok /\ ~arg_ok ->
              [acc EXCEPT !.items = @ \o
                  [ix \in 1..Len(short) |->
                      Short(short[ix], FALSE, IF ix = 1 THEN os ELSE <<>>)]]
         [] ~flags_ok /\ arg_ok ->
              [acc EXCEPT !.items = @ \o
                  << Short(short[1], TRUE, os),
                     Word(SubSeq(short, 2, Len(short))) >>]
         [] OTHER ->
              [acc EXCEPT !.items = Append(@, Word(os))]

\* the match on split_os_argument(&os)
classify(acc, os, flags, argletters) ==
    LET sp == split_os_argument(os)
    IN CASE sp.some /\ sp.ty = "Short" /\ ~sp.has_arg ->
              IF Len(sp.name) - 1 = 0
              THEN [acc EXCEPT !.items = Append(@, Short(sp.name[1], FALSE, os))]
              ELSE disambiguate(acc, sp.name, os, flags, argletters)
         [] sp.some /\ sp.ty = "Short" /\ sp.has_arg ->
              [acc EXCEPT !.items = @ \o << Short(sp.name[1], TRUE, os), sp.arg >>]
         [] sp.some /\ sp.ty = "Long" ->
              [acc EXCEPT !.items =
                  IF sp.has_arg THEN @ \o << Long(sp.name, TRUE, os), sp.arg >>
                  ELSE Append(@, Long(sp.name, FALSE, os))]
         [] OTHER ->
              IF os = <<"-", "-">>
              THEN [acc EXCEPT !.double_dash_marker = Len(acc.items),
                               !.pos_only = TRUE,
                               !.items = Append(@, PosWord(os))]
              ELSE [acc EXCEPT !.items = Append(@, Word(os))]

\* construct_item without the pos_only test: items after `--` are classified
\* like any other
construct_item_reclassifies(acc, os, flags, argletters) ==
    classify(acc, os, flags, argletters)

\* construct_item that takes every `--` for the marker, the later ones too
construct_item_marks_every_dash(acc, os, flags, argletters) ==
    IF os = <<"-", "-">>
    THEN [acc EXCEPT !.double_dash_marker = Len(acc.items),
                     !.pos_only = TRUE,
                     !.items = Append(@, PosWord(os))]
    ELSE IF acc.pos_only THEN [acc EXCEPT !.items = Append(@, PosWord(os))]
    ELSE classify(acc, os, flags, argletters)

\* one iteration of `for mut os in args.items`
construct_item(acc, os, flags, argletters) ==
    IF acc.pos_only THEN [acc EXCEPT !.items = Append(@, PosWord(os))]
    ELSE classify(acc, os, flags, argletters)

RECURSIVE construct_loop(_, _, _, _, _)
construct_loop(raw, k, acc, flags, argletters) ==
    IF k > Len(raw) \/ acc.stop THEN acc
    ELSE construct_loop(raw, k + 1, construct_item(acc, raw[k], flags, argletters),
                        flags, argletters)

construct(raw, flags, argletters) ==
    LET acc == construct_loop(raw, 1,
                   [items |-> <<>>, pos_only |-> FALSE, double_dash_marker |-> None,
                    err |-> NoMessage, stop |-> FALSE],
                   flags, argletters)
        n == Len(acc.items)
        unparsed == [ix \in 1..n |-> Unparsed]
        ix == acc.double_dash_marker
    IN [err |-> acc.err,
        items |-> acc.items,
        item_state |-> IF ix # None THEN SetAt(unparsed, ix, Parsed) ELSE unparsed,
        remaining |-> IF ix # None THEN n - 1 ELSE n,
        scope |-> Range(0, n),
        current |-> None]

-----------------------------------------------------------------------------
(* State: the pool record, self = [items, item_state, remaining, current, scope] *)

State_present(self, ix) ==
    IF ix < Len(self.item_state) THEN ItemState_present(At(self.item_state, ix))
    ELSE FALSE

\* ArgsIter: the indices items_iter() yields, in increasing order
items_iter(self) ==
    { ix \in 0..(Len(self.items) - 1) :
        /\ ix >= self.scope.start
        /\ Range_contains(self.scope, ix)
        /\ ItemState_present(At(self.item_state, ix)) }

is_empty(self) == self.remaining = 0

len(self) == self.remaining

\* remove without the scope test: a token outside the scope is consumed
remove_ignores_scope(self, index) ==
    IF index < Len(self.item_state) /\ ItemState_present(At(self.item_state, index))
    THEN [self EXCEPT !.current = index,
                      !.remaining = @ - 1,
                      !.item_state = SetAt(@, index, Parsed)]
    ELSE self

\* remove without the presence test: a token already Parsed is removed again
remove_absent_too(self, index) ==
    IF Range_contains(self.scope, index)
    THEN [self EXCEPT !.current = index,
                      !.remaining = @ - 1,
                      !.item_state = SetAt(@, index, Parsed)]
    ELSE self

remove(self, index) ==
    IF Range_contains(self.scope, index) /\ ItemState_present(At(self.item_state, index))
    THEN [self EXCEPT !.current = index,
                      !.remaining = @ - 1,
                      !.item_state = SetAt(@, index, Parsed)]
    ELSE self

Winner(me, ix) == [me |-> me, ix |-> ix]

\* pick_winner deciding on the last difference instead of the first
pick_winner_last_difference(self, other) ==
    LET zipped == Min({Len(self.item_state), Len(other)})
        differ == { ix \in 0..(zipped - 1) :
                      ItemState_parsed(At(self.item_state, ix))
                          # ItemState_parsed(At(other, ix)) }
    IN IF differ = {} THEN Winner(TRUE, None)
       ELSE Winner(ItemState_parsed(At(self.item_state, Max(differ))), Max(differ))

\* the loop returns at the first index where parsed() of the two differs
pick_winner(self, other) ==
    LET zipped == Min({Len(self.item_state), Len(other)})
        differ == { ix \in 0..(zipped - 1) :
                      ItemState_parsed(At(self.item_state, ix))
                          # ItemState_parsed(At(other, ix)) }
    IN IF differ = {} THEN Winner(TRUE, None)
       ELSE Winner(ItemState_parsed(At(self.item_state, Min(differ))), Min(differ))

\* save_conflicts without the test that the winner's token is present
save_conflicts_marks_consumed(self, loser, win) ==
    [self EXCEPT !.item_state =
        [i \in 1..Len(self.item_state) |->
            IF i <= Len(loser) /\ ItemState_parsed(loser[i])
            THEN Conflict(win)
            ELSE self.item_state[i]]]

save_conflicts(self, loser, win) ==
    [self EXCEPT !.item_state =
        [i \in 1..Len(self.item_state) |->
            IF i <= Len(loser) /\ ItemState_present(self.item_state[i])
                               /\ ItemState_parsed(loser[i])
            THEN Conflict(win)
            ELSE self.item_state[i]]]

NoArg == [some |-> FALSE, arg |-> Word(<<>>)]

\* get without the scope test
get_out_of_scope(self, ix) ==
    IF /\ ix < Len(self.item_state)
       /\ ItemState_present(At(self.item_state, ix))
    THEN [some |-> TRUE, arg |-> At(self.items, ix)]
    ELSE NoArg

get(self, ix) ==
    IF /\ Range_contains(self.scope, ix)
       /\ ix < Len(self.item_state)
       /\ ItemState_present(At(self.item_state, ix))
       /\ ix < Len(self.items)
    THEN [some |-> TRUE, arg |-> At(self.items, ix)]
    ELSE NoArg

set_scope(self, range) ==
    [self EXCEPT !.scope = range,
                 !.remaining = Cardinality({ ix \in range.start..(range.end - 1) :
                                             ItemState_present(At(self.item_state, ix)) })]

NoRange == [some |-> FALSE, range |-> Range(0, 0)]

SomeRange(start, end) == [some |-> TRUE, range |-> Range(start, end)]

\* adjacent_scope with the bounds of the proposed scope swapped
adjacent_scope_swapped(self, original) ==
    IF Len(self.items) = 0 THEN NoRange
    ELSE LET start == self.scope.start
             mismatch == { offset \in start..(Min({Len(self.item_state), Len(original)}) - 1) :
                             /\ ItemState_present(At(self.item_state, offset))
                             /\ ItemState_present(At(original, offset)) }
         IN IF mismatch = {} THEN NoRange
            ELSE IF self.scope = Range(start, Min(mismatch)) THEN NoRange
                 ELSE SomeRange(Min(mismatch), start)

\* adjacent_scope that proposes the scope the pool already has
adjacent_scope_repeats(self, original) ==
    IF Len(self.items) = 0 THEN NoRange
    ELSE LET start == self.scope.start
             mismatch == { offset \in start..(Min({Len(self.item_state), Len(original)}) - 1) :
                             /\ ItemState_present(At(self.item_state, offset))
                             /\ ItemState_present(At(original, offset)) }
         IN IF mismatch = {} THEN NoRange
            ELSE SomeRange(start, Min(mismatch))

\* original is the status list of the pool self was cloned from
adjacent_scope(self, original) ==
    IF Len(self.items) = 0 THEN NoRange
    ELSE LET start == self.scope.start
             mismatch == { offset \in start..(Min({Len(self.item_state), Len(original)}) - 1) :
                             /\ ItemState_present(At(self.item_state, offset))
                             /\ ItemState_present(At(original, offset)) }
         IN IF mismatch = {} THEN NoRange
            ELSE IF self.scope = Range(start, Min(mismatch)) THEN NoRange
                 ELSE SomeRange(start, Min(mismatch))

adjacently_available_from(self, start) ==
    IF Len(self.items) = 0 THEN NoRange
    ELSE LET parsed == { end \in start..(Len(self.item_state) - 1) :
                           ItemState_parsed(At(self.item_state, end)) }
         IN IF parsed = {} THEN SomeRange(start, start)
            ELSE SomeRange(start, Min(parsed))

\* ArgRangesIter: the (start, candidate pool) pairs ranges() yields
ranges(self) ==
    { [start |-> cur, args |-> set_scope(self, Range(cur, Len(self.items)))] :
        cur \in { c \in 0..self.scope.end : State_present(self, c) } }

\* Args::restrict_to_range: of the tokens the pool shows only those of range
\* stay visible
restrict_to_range(self, range) ==
    LET start == Max({self.scope.start, range.start})
        end == Min({self.scope.end, range.end})
    IN set_scope(self, Range(start, Max({start, end})))

\* Args::copy_usage_from: the tokens of range get the status they have in other
copy_usage_from(self, other, range) ==
    LET copied == [ i \in 1..Len(self.item_state) |->
                      IF Range_contains(range, i - 1) THEN other.item_state[i]
                      ELSE self.item_state[i] ]
    IN set_scope([self EXCEPT !.item_state = copied], self.scope)

\* Args::refine_range: the block of adjacently consumed tokens, compared to
\* args, replaces guess; tells whether guess has changed
refine_range(self, original, guess) ==
    LET refined == adjacent_scope(self, original.item_state)
    IN IF refined.some THEN [refined |-> TRUE, guess |-> refined.range]
       ELSE [refined |-> FALSE, guess |-> guess]

-----------------------------------------------------------------------------
(* NamedArg::matches_arg *)

NamedArg(shorts, longs) == [short |-> shorts, long |-> longs]

matches_arg(named, arg, adjacent) ==
    CASE arg.kind = "Short" -> arg.name[1] \in named.short /\ (~adjacent \/ arg.adj)
      [] arg.kind = "Long" -> arg.name \in named.long /\ (~adjacent \/ arg.adj)
      [] OTHER -> FALSE

-----------------------------------------------------------------------------
(* Primitive consumers.  Each returns the pool after the call and what the *)
(* call returned: res is the variant, pos the index it carries, val and    *)
(* strict the payload.                                                     *)

Ret(self, res, pos, val, strict) ==
    [self |-> self, res |-> res, pos |-> pos, val |-> val, strict |-> strict]

\* take_flag removing the last match instead of the first
take_flag_rightmost(self, named) ==
    LET found == { ix \in items_iter(self) : matches_arg(named, At(self.items, ix), FALSE) }
    IN IF found # {}
       THEN Ret(remove(self, Max(found)), "true", Max(found), <<>>, FALSE)
       ELSE Ret(self, "false", None, <<>>, FALSE)

take_flag(self, named) ==
    LET found == { ix \in items_iter(self) : matches_arg(named, At(self.items, ix), FALSE) }
    IN IF found # {}
       THEN Ret(remove(self, Min(found)), "true", Min(found), <<>>, FALSE)
       ELSE Ret(self, "false", None, <<>>, FALSE)

\* take_arg that forgets to remove the value token
take_arg_keeps_value(self, named, adjacent) ==
    LET found == { ix \in items_iter(self) : matches_arg(named, At(self.items, ix), adjacent) }
    IN IF found = {} THEN Ret(self, "Ok(None)", None, <<>>, FALSE)
       ELSE LET key_ix == Min(found)
                val_ix == key_ix + 1
                val == get(self, val_ix)
            IN IF val.some /\ val.arg.kind = "Word"
               THEN Ret(remove([self EXCEPT !.current = val_ix], key_ix),
                        "Ok(Some)", key_ix, val.arg.os, FALSE)
               ELSE Ret(self, "NoArgument", key_ix, <<>>, FALSE)

\* take_arg that refuses a value starting with a dash
take_arg_rejects_dash(self, named, adjacent) ==
    LET found == { ix \in items_iter(self) : matches_arg(named, At(self.items, ix), adjacent) }
    IN IF found = {} THEN Ret(self, "Ok(None)", None, <<>>, FALSE)
       ELSE LET key_ix == Min(found)
                val_ix == key_ix + 1
                val == get(self, val_ix)
            IN IF val.some /\ val.arg.kind = "Word" /\ val.arg.os[1] # "-"
               THEN Ret(remove(remove([self EXCEPT !.current = val_ix], key_ix), val_ix),
                        "Ok(Some)", key_ix, val.arg.os, FALSE)
               ELSE Ret(self, "NoArgument", key_ix, <<>>, FALSE)

take_arg(self, named, adjacent) ==
    LET found == { ix \in items_iter(self) : matches_arg(named, At(self.items, ix), adjacent) }
    IN IF found = {} THEN Ret(self, "Ok(None)", None, <<>>, FALSE)
       ELSE LET key_ix == Min(found)
                val_ix == key_ix + 1
                val == get(self, val_ix)
            IN IF val.some /\ val.arg.kind = "Word"
               THEN Ret(remove(remove([self EXCEPT !.current = val_ix], key_ix), val_ix),
                        "Ok(Some)", key_ix, val.arg.os, FALSE)
               ELSE Ret(self, "NoArgument", key_ix, <<>>, FALSE)

\* take_positional_word that skips flags to the first word
take_positional_word_skips_flags(self) ==
    LET it == { ix \in items_iter(self) : At(self.items, ix).kind \in {"Word", "PosWord"} }
    IN IF it = {} THEN Ret(self, "Ok(None)", None, <<>>, FALSE)
       ELSE LET ix == Min(it)
                arg == At(self.items, ix)
            IN Ret(remove([self EXCEPT !.current = ix], ix), "Ok(Some)", ix, arg.os,
                   arg.kind = "PosWord")

take_positional_word(self) ==
    LET it == items_iter(self)
    IN IF it = {} THEN Ret(self, "Ok(None)", None, <<>>, FALSE)
       ELSE LET ix == Min(it)
                arg == At(self.items, ix)
            IN CASE arg.kind = "PosWord" ->
                      Ret(remove([self EXCEPT !.current = ix], ix), "Ok(Some)", ix, arg.os, TRUE)
                 [] arg.kind = "Word" ->
                      Ret(remove([self EXCEPT !.current = ix], ix), "Ok(Some)", ix, arg.os, FALSE)
                 [] OTHER ->
                      Ret(self, "Missing", ix, <<>>, FALSE)

\* take_cmd that searches the whole scope for the word
take_cmd_anywhere(self, word) ==
    LET it == { ix \in items_iter(self) : At(self.items, ix) = Word(word) }
    IN IF it # {}
       THEN Ret([remove(self, Min(it)) EXCEPT !.current = Min(it)], "true", Min(it), <<>>, FALSE)
       ELSE Ret([self EXCEPT !.current = None], "false", None, <<>>, FALSE)

take_cmd(self, word) ==
    LET it == items_iter(self)
    IN IF it # {} /\ At(self.items, Min(it)).kind = "Word" /\ At(self.items, Min(it)).os = word
       THEN Ret([remove(self, Min(it)) EXCEPT !.current = Min(it)], "true", Min(it), <<>>, FALSE)
       ELSE Ret([self EXCEPT !.current = None], "false", None, <<>>, FALSE)

-----------------------------------------------------------------------------
(* Inputs of the operations *)

NamedArgs ==
    { NamedArg({"a"}, {}),                  \* short('a')
      NamedArg({"b"}, {}),                  \* short('b')
      NamedArg({}, {<<"a", "b">>}),         \* long("ab")
      NamedArg({"a"}, {<<"a", "b">>}) }     \* short('a').long("ab")

Words == { <<"a", "b">>, <<"1">> }

Line(raw, flags, argletters) ==
    [args |-> raw, short_flags |-> flags, short_args |-> argletters]

\* command lines the pool operations are explored on
CommandLines ==
    { Line(<< <<"-", "-", "a", "b">>, <<"1">> >>, {}, {}),                  \* --ab 1
      Line(<< <<"-", "a", "a">> >>, {"a"}, {}),                             \* -aa
      Line(<< <<"-", "-", "a", "b", "=", "1">> >>, {}, {}),                 \* --ab=1
      Line(<< <<"-", "-", "a", "b", "=", "-", "1">> >>, {}, {}),            \* --ab=-1
      Line(<< <<"-", "a", "=", "1">> >>, {}, {}),                           \* -a=1
      Line(<< <<"-", "a", "=", "-", "1">> >>, {}, {}),                      \* -a=-1
      Line(<< <<"-", "a">>, <<"1">> >>, {}, {}),                            \* -a 1
      Line(<< <<"-", "a">>, <<"-", "b">> >>, {}, {}),                       \* -a -b
      Line(<< <<"a", "b">>, <<"-", "a">>, <<"1">> >>, {}, {}),              \* ab -a 1
      Line(<< <<"a", "b">>, <<"1">> >>, {}, {}),                            \* ab 1
      Line(<< <<"1">>, <<"a", "b">> >>, {}, {}),                            \* 1 ab
      Line(<< <<"-", "b">>, <<"-", "-">>, <<"-", "a">> >>, {}, {}),         \* -b -- -a
      Line(<< <<"-", "-">>, <<"a", "b">> >>, {}, {}),                       \* -- ab
      Line(<< <<"-", "-">>, <<"-", "-">> >>, {}, {}),                       \* -- --
      Line(<< <<"-", "a">>, <<"-", "a">>, <<"1">> >>, {}, {}),              \* -a -a 1
      Line(<< <<"-", "a", "b">> >>, {"a", "b"}, {}),                        \* -ab as flags
      Line(<< <<"-", "a", "b">> >>, {}, {"a"}),                             \* -ab as -a b
      Line(<< <<"-", "a", "b">> >>, {"a", "b"}, {"a"}),                     \* -ab ambiguous
      Line(<< <<"-", "a", "b">> >>, {}, {}) }                               \* -ab as a word

NoNamed == NamedArg({}, {})

Call(op, named, adjacent, word, r) ==
    [op |-> op, named |-> named, adjacent |-> adjacent, word |-> word,
     res |-> r.res, pos |-> r.pos, val |-> r.val, strict |-> r.strict]

Unit == Ret(<<>>, "unit", None, <<>>, FALSE)

NoCall == Call("none", NoNamed, FALSE, <<>>, Unit)

Self ==
    [items |-> items, item_state |-> item_state, remaining |-> remaining,
     current |-> current, scope |-> scope]

Becomes(self) ==
    /\ item_state' = self.item_state
    /\ remaining' = self.remaining
    /\ current' = self.current
    /\ scope' = self.scope
    /\ UNCHANGED <<args, short_flags, short_args, err, items>>
    /\ UNCHANGED <<head, depth, conflicts, parser, result>>

-----------------------------------------------------------------------------
(* Args of the combinators: the pool record with head, depth and conflicts *)

\* the head of a pool that has consumed nothing
usize_MAX == 255

\* Args::remove keeps head at the leftmost index consumed so far
with_head(before, after) ==
    LET taken == { ix \in 0..(Len(before.items) - 1) :
                     /\ ItemState_present(At(before.item_state, ix))
                     /\ ItemState_parsed(At(after.item_state, ix)) }
    IN [after EXCEPT !.head = Min({@} \cup taken)]

(* info::Error *)

NoError == [kind |-> "None", items |-> <<>>, recoverable |-> FALSE]

Missing(expected) == [kind |-> "Missing", items |-> expected, recoverable |-> FALSE]

Message(text, recoverable) == [kind |-> "Message", items |-> text, recoverable |-> recoverable]

ParseFailure(text) == [kind |-> "ParseFailure", items |-> text, recoverable |-> FALSE]

combine_with(e1, e2) ==
    CASE e1.kind = "ParseFailure" -> e1
      [] e2.kind = "ParseFailure" -> e2
      [] e1.kind = "Missing" /\ e2.kind = "Missing" -> Missing(e1.items \o e2.items)
      [] e1.kind = "Missing" -> e2
      [] e2.kind = "Missing" -> e1
      [] OTHER -> e1

(* Result<T, Error> together with the pool eval leaves behind *)

Ok(a, v) == [args |-> a, ok |-> TRUE, val |-> v, err |-> NoError]

Err(a, e) == [args |-> a, ok |-> FALSE, val |-> <<>>, err |-> e]

NoResult == [ok |-> FALSE, val |-> <<>>, err |-> NoError]

(* Parsers.  item is the parser's meta, val the value a flag, pure or      *)
(* fallback stands for, fails tells that the user function of parse,       *)
(* guard or fallback_with returns an error, subs are the inner parsers.    *)

Parser(kind, item, named, word, val, catch, fails, subs) ==
    [kind |-> kind, item |-> item, named |-> named, word |-> word, val |-> val,
     catch |-> catch, fails |-> fails, subs |-> subs]

NoParser == Parser("none", <<>>, NoNamed, <<>>, <<>>, FALSE, FALSE, <<>>)

meta(p) == p.item

ReqFlag(named, item) == Parser("req_flag", <<item>>, named, <<>>, <<item>>, FALSE, FALSE, <<>>)

Argument(named, item) == Parser("argument", <<item>>, named, <<>>, <<>>, FALSE, FALSE, <<>>)

Positional(item) == Parser("positional", <<item>>, NoNamed, <<>>, <<>>, FALSE, FALSE, <<>>)

Command(word, item, sub) ==
    Parser("command", <<item>>, NoNamed, word, <<>>, FALSE, FALSE, <<sub>>)

ParsePure(v) == Parser("pure", <<>>, NoNamed, <<>>, v, FALSE, FALSE, <<>>)

ParseFail(text) == Parser("fail", <<text>>, NoNamed, <<>>, <<>>, FALSE, FALSE, <<>>)

ParseWith(inner, fails) == Parser("parse", meta(inner), NoNamed, <<>>, <<>>, FALSE, fails, <<inner>>)

ParseGuard(inner, fails) == Parser("guard", meta(inner), NoNamed, <<>>, <<>>, FALSE, fails, <<inner>>)

ParseCon(subs) ==
    Parser("construct", <<"(">> \o subs[1].item \o subs[2].item \o <<")">>,
           NoNamed, <<>>, <<>>, FALSE, FALSE, subs)

ParseOrElse(this, that) ==
    Parser("or_else", meta(this) \o meta(that), NoNamed, <<>>, <<>>, FALSE, FALSE, <<this, that>>)

ParseOptional(inner, catch) ==
    Parser("optional", meta(inner), NoNamed, <<>>, <<>>, catch, FALSE, <<inner>>)

ParseMany(inner, catch) ==
    Parser("many", meta(inner), NoNamed, <<>>, <<>>, catch, FALSE, <<inner>>)

ParseSome(inner, message, catch) ==
    Parser("some", meta(inner), NoNamed, <<>>, message, catch, FALSE, <<inner>>)

ParseFallback(inner, value) ==
    Parser("fallback", meta(inner), NoNamed, <<>>, value, FALSE, FALSE, <<inner>>)

ParseFallbackWith(inner, value, fails) ==
    Parser("fallback_with", meta(inner), NoNamed, <<>>, value, FALSE, fails, <<inner>>)

\* the parser of a help or version flag: the request ends the whole parse
ParseHelp(named, item) == Parser("help", <<item>>, named, <<>>, <<>>, FALSE, FALSE, <<>>)

ParseAdjacent(inner) ==
    Parser("adjacent", meta(inner), NoNamed, <<>>, <<>>, FALSE, FALSE, <<inner>>)

ParseAnywhere(inner, catch) ==
    Parser("anywhere", meta(inner), NoNamed, <<>>, <<>>, catch, FALSE, <<inner>>)

\* Item::MultiArg, what classify_anywhere makes of a required flag followed
\* by positional items only
MultiArg == "MultiArg"

multi_arg(inner) ==
    /\ inner.kind = "construct"
    /\ inner.subs[1].kind = "req_flag"
    /\ \A k \in 2..Len(inner.subs) : inner.subs[k].kind = "positional"

RECURSIVE meta_items(_)
\* the items a Missing of anywhere names before any candidate has failed
meta_items(p) ==
    CASE p.kind \in {"req_flag", "argument", "positional", "command", "help"} -> p.item
      [] p.kind \in {"pure", "fail"} -> <<>>
      [] p.kind = "construct" -> IF Len(p.subs) = 0 THEN <<>> ELSE meta_items(p.subs[1])
      [] p.kind = "or_else" -> meta_items(p.subs[1]) \o meta_items(p.subs[2])
      [] p.kind = "anywhere" ->
            IF multi_arg(p.subs[1]) THEN <<MultiArg>> ELSE meta_items(p.subs[1])
      [] OTHER -> meta_items(p.subs[1])

-----------------------------------------------------------------------------
(* Args::conflicts, a map from head to Conflict *)

Solo(at, winner) == [at |-> at, kind |-> "Solo", winner |-> winner, loser |-> <<>>]

Conflicts(at, winner, loser) ==
    [at |-> at, kind |-> "Conflicts", winner |-> winner, loser |-> loser]

\* entry(key).or_insert(conflict)
or_insert(map, conflict) ==
    IF \E e \in map : e.at = conflict.at THEN map ELSE map \cup {conflict}

\* Conflict::winner of the entry at key
winner_at(map, key) == (CHOOSE e \in map : e.at = key).winner

remember_winner(a, winner) ==
    [a EXCEPT !.conflicts = or_insert(@, Solo(a.head, winner))]

remember_conflict(a, winner, failed, loser) ==
    LET solo == or_insert(a.conflicts, Solo(a.head, winner))
        w == winner_at(solo, a.head)
        l == IF \E e \in failed.conflicts : e.at = failed.head
             THEN winner_at(failed.conflicts, failed.head)
             ELSE loser
    IN [a EXCEPT !.conflicts = or_insert(solo, Conflicts(failed.head, w, l))]

-----------------------------------------------------------------------------
(* this_or_that_picks_first: the caller's pool after the swaps, whether the *)
(* Result is Ok and, if so, whether the first branch is picked              *)

Picked(a, first) == [args |-> a, ok |-> TRUE, first |-> first, err |-> NoError]

NotPicked(a, e) == [args |-> a, ok |-> FALSE, first |-> FALSE, err |-> e]

\* this_or_that_picks_first without the comparison of depths
picks_without_depth(err_a, err_b, a, args_a, args_b) ==
    CASE err_a.kind = "None" /\ err_b.kind = "None" ->
            IF args_a.head <= args_b.head
            THEN Picked(args_a, TRUE)
            ELSE Picked(args_b, FALSE)
      [] err_a.kind = "None" /\ err_b.kind # "None" -> Picked(args_a, TRUE)
      [] err_a.kind # "None" /\ err_b.kind = "None" -> Picked(args_b, FALSE)
      [] OTHER -> NotPicked(a, combine_with(err_a, err_b))

\* this_or_that_picks_first that lets a failure win over a success
picks_failure(err_a, err_b, a, args_a, args_b) ==
    CASE args_a.depth < args_b.depth ->
            IF err_b.kind # "None" THEN NotPicked(args_b, err_b) ELSE Picked(args_b, FALSE)
      [] args_a.depth > args_b.depth ->
            IF err_a.kind # "None" THEN NotPicked(args_a, err_a) ELSE Picked(args_a, TRUE)
      [] OTHER ->
            CASE err_a.kind = "None" /\ err_b.kind = "None" ->
                    IF args_a.head <= args_b.head
                    THEN Picked(args_a, TRUE)
                    ELSE Picked(args_b, FALSE)
              [] err_a.kind = "None" /\ err_b.kind # "None" -> NotPicked(a, err_b)
              [] err_a.kind # "None" /\ err_b.kind = "None" -> NotPicked(a, err_a)
              [] OTHER -> NotPicked(a, combine_with(err_a, err_b))

\* this_or_that_picks_first that swaps the first clone in when both fail
picks_swaps_on_failure(err_a, err_b, a, args_a, args_b) ==
    CASE args_a.depth < args_b.depth ->
            IF err_b.kind # "None" THEN NotPicked(args_b, err_b) ELSE Picked(args_b, FALSE)
      [] args_a.depth > args_b.depth ->
            IF err_a.kind # "None" THEN NotPicked(args_a, err_a) ELSE Picked(args_a, TRUE)
      [] OTHER ->
            CASE err_a.kind = "None" /\ err_b.kind = "None" ->
                    IF args_a.head <= args_b.head
                    THEN Picked(args_a, TRUE)
                    ELSE Picked(args_b, FALSE)
              [] err_a.kind = "None" /\ err_b.kind # "None" -> Picked(args_a, TRUE)
              [] err_a.kind # "None" /\ err_b.kind = "None" -> Picked(args_b, FALSE)
              [] OTHER -> NotPicked(args_a, combine_with(err_a, err_b))

\* this_or_that_picks_first that swaps the second clone in and picks the first
picks_first_swaps_second(err_a, err_b, a, args_a, args_b) ==
    CASE args_a.depth < args_b.depth ->
            IF err_b.kind # "None" THEN NotPicked(args_b, err_b) ELSE Picked(args_b, FALSE)
      [] args_a.depth > args_b.depth ->
            IF err_a.kind # "None" THEN NotPicked(args_a, err_a) ELSE Picked(args_a, TRUE)
      [] OTHER ->
            CASE err_a.kind = "None" /\ err_b.kind = "None" ->
                    IF args_a.head <= args_b.head
                    THEN Picked(args_b, TRUE)
                    ELSE Picked(args_b, FALSE)
              [] err_a.kind = "None" /\ err_b.kind # "None" -> Picked(args_a, TRUE)
              [] err_a.kind # "None" /\ err_b.kind = "None" -> Picked(args_b, FALSE)
              [] OTHER -> NotPicked(a, combine_with(err_a, err_b))

\* this_or_that_picks_first preferring the rightmost head
picks_rightmost(err_a, err_b, a, args_a, args_b) ==
    CASE args_a.depth < args_b.depth ->
            IF err_b.kind # "None" THEN NotPicked(args_b, err_b) ELSE Picked(args_b, FALSE)
      [] args_a.depth > args_b.depth ->
            IF err_a.kind # "None" THEN NotPicked(args_a, err_a) ELSE Picked(args_a, TRUE)
      [] OTHER ->
            CASE err_a.kind = "None" /\ err_b.kind = "None" ->
                    IF args_a.head >= args_b.head
                    THEN Picked(args_a, TRUE)
                    ELSE Picked(args_b, FALSE)
              [] err_a.kind = "None" /\ err_b.kind # "None" -> Picked(args_a, TRUE)
              [] err_a.kind # "None" /\ err_b.kind = "None" -> Picked(args_b, FALSE)
              [] OTHER -> NotPicked(a, combine_with(err_a, err_b))

\* this_or_that_picks_first that gives a tie on the head to the second branch
picks_second_on_tie(err_a, err_b, a, args_a, args_b) ==
    CASE args_a.depth < args_b.depth ->
            IF err_b.kind # "None" THEN NotPicked(args_b, err_b) ELSE Picked(args_b, FALSE)
      [] args_a.depth > args_b.depth ->
            IF err_a.kind # "None" THEN NotPicked(args_a, err_a) ELSE Picked(args_a, TRUE)
      [] OTHER ->
            CASE err_a.kind = "None" /\ err_b.kind = "None" ->
                    IF args_a.head < args_b.head
                    THEN Picked(args_a, TRUE)
                    ELSE Picked(args_b, FALSE)
              [] err_a.kind = "None" /\ err_b.kind # "None" -> Picked(args_a, TRUE)
              [] err_a.kind # "None" /\ err_b.kind = "None" -> Picked(args_b, FALSE)
              [] OTHER -> NotPicked(a, combine_with(err_a, err_b))

this_or_that_picks_first(err_a, err_b, a, args_a, args_b) ==
    CASE args_a.depth < args_b.depth ->
            IF err_b.kind # "None" THEN NotPicked(args_b, err_b) ELSE Picked(args_b, FALSE)
      [] args_a.depth > args_b.depth ->
            IF err_a.kind # "None" THEN NotPicked(args_a, err_a) ELSE Picked(args_a, TRUE)
      [] OTHER ->
            CASE err_a.kind = "None" /\ err_b.kind = "None" ->
                    IF args_a.head <= args_b.head
                    THEN Picked(args_a, TRUE)
                    ELSE Picked(args_b, FALSE)
              [] err_a.kind = "None" /\ err_b.kind # "None" -> Picked(args_a, TRUE)
              [] err_a.kind # "None" /\ err_b.kind = "None" -> Picked(args_b, FALSE)
              [] OTHER -> NotPicked(a, combine_with(err_a, err_b))

\* ParseOrElse::eval after both branches ran: ra on args_a, rb on args_b
ParseOrElse_eval(p, a, ra, rb) ==
    LET pick == this_or_that_picks_first(ra.err, rb.err, a, ra.args, rb.args)
    IN IF ~pick.ok THEN Err(pick.args, pick.err)
       ELSE IF pick.first
            THEN Ok(IF rb.ok
                    THEN remember_conflict(pick.args, meta(p.subs[1]), rb.args, meta(p.subs[2]))
                    ELSE remember_winner(pick.args, meta(p.subs[1])),
                    ra.val)
            ELSE Ok(IF ra.ok
                    THEN remember_conflict(pick.args, meta(p.subs[2]), ra.args, meta(p.subs[1]))
                    ELSE remember_winner(pick.args, meta(p.subs[2])),
                    rb.val)

-----------------------------------------------------------------------------
(* The primitive parsers: a primitive consumer of the pool and the failure *)
(* its outcome stands for                                                  *)

req_flag_eval(p, a) ==
    LET r == take_flag(a, p.named)
    IN IF r.res = "true" THEN Ok(with_head(a, r.self), p.val)
       ELSE Err(r.self, Missing(p.item))

argument_eval(p, a) ==
    LET r == take_arg(a, p.named, FALSE)
    IN CASE r.res = "Ok(Some)" -> Ok(with_head(a, r.self), r.val)
         [] r.res = "Ok(None)" -> Err(r.self, Missing(p.item))
         [] OTHER -> Err(r.self, Message(<<"NoArgument">>, FALSE))

positional_eval(p, a) ==
    LET r == take_positional_word(a)
    IN IF r.res = "Ok(Some)" THEN Ok(with_head(a, r.self), r.val)
       ELSE Err(r.self, Missing(p.item))

\* a help flag that is present ends the parse
help_eval(p, a) ==
    LET r == take_flag(a, p.named)
    IN IF r.res = "true" THEN Err(with_head(a, r.self), ParseFailure(<<"help">>))
       ELSE Err(r.self, Missing(p.item))

\* a command takes its name and goes one level deeper
command_enter(p, a) ==
    LET r == take_cmd(a, p.word)
    IN IF r.res = "true"
       THEN Ok([with_head(a, r.self) EXCEPT !.depth = @ + 1], <<>>)
       ELSE Err(r.self, Missing(p.item))

-----------------------------------------------------------------------------
(* Parser::eval *)

RECURSIVE eval(_, _)
RECURSIVE many_loop(_, _, _, _, _)
RECURSIVE construct_fields(_, _, _, _)
RECURSIVE adjacent_loop(_, _, _, _, _)
RECURSIVE anywhere_loop(_, _, _, _, _, _)

\* Result<Option<T>, Error>
OkSome(a, v) == [args |-> a, ok |-> TRUE, some |-> TRUE, val |-> v, err |-> NoError]

OkNone(a) == [args |-> a, ok |-> TRUE, some |-> FALSE, val |-> <<>>, err |-> NoError]

ErrOption(a, e) == [args |-> a, ok |-> FALSE, some |-> FALSE, val |-> <<>>, err |-> e]

\* a Result whose value is a Vec of n values
Collected(r, n) == [args |-> r.args, ok |-> r.ok, val |-> r.val, err |-> r.err, n |-> n]

\* parse_option that hands back the pool of the failed attempt
parse_option_keeps_attempt(inner, a, catch) ==
    LET r == eval(inner, a)
    IN IF r.ok THEN OkSome(r.args, r.val)
       ELSE CASE r.err.kind = "Message" /\ catch -> OkNone(r.args)
              [] r.err.kind \in {"Message", "ParseFailure"} -> ErrOption(r.args, r.err)
              [] OTHER -> IF len(a) = len(r.args) THEN OkNone(r.args) ELSE ErrOption(r.args, r.err)

\* parse_option whose catch also turns a ParseFailure into None
parse_option_catches_termination(inner, a, catch) ==
    LET r == eval(inner, a)
    IN IF r.ok THEN OkSome(r.args, r.val)
       ELSE CASE r.err.kind \in {"Message", "ParseFailure"} /\ catch -> OkNone(a)
              [] r.err.kind \in {"Message", "ParseFailure"} -> ErrOption(a, r.err)
              [] OTHER -> IF len(a) = len(r.args) THEN OkNone(a) ELSE ErrOption(a, r.err)

parse_option(inner, a, catch) ==
    LET r == eval(inner, a)
    IN IF r.ok THEN OkSome(r.args, r.val)
       ELSE CASE r.err.kind = "Message" /\ catch -> OkNone(a)
              [] r.err.kind \in {"Message", "ParseFailure"} -> ErrOption(a, r.err)
              [] OTHER -> IF len(a) = len(r.args) THEN OkNone(a) ELSE ErrOption(a, r.err)

\* the loop that takes a second value without progress
many_loop_takes_two(p, a, res, n, length) ==
    LET o == parse_option(p.subs[1], a, p.catch)
    IN IF ~o.ok THEN Collected(Err(o.args, o.err), 0)
       ELSE IF ~o.some THEN Collected(Ok(o.args, res), n)
       ELSE IF len(o.args) < length \/ n <= 1
            THEN many_loop(p, o.args, res \o o.val, n + 1, len(o.args))
            ELSE Collected(Ok(o.args, res), n)

\* the loop of ParseMany::eval and ParseSome::eval: n values collected in res
many_loop(p, a, res, n, length) ==
    LET o == parse_option(p.subs[1], a, p.catch)
    IN IF ~o.ok THEN Collected(Err(o.args, o.err), 0)
       ELSE IF ~o.some THEN Collected(Ok(o.args, res), n)
       ELSE IF len(o.args) < length \/ n = 0
            THEN many_loop(p, o.args, res \o o.val, n + 1, len(o.args))
            ELSE Collected(Ok(o.args, res), n)

\* the closure of construct!: the fields are evaluated in order with `?`
construct_fields(subs, k, a, vals) ==
    IF k > Len(subs) THEN Ok(a, vals)
    ELSE LET r == eval(subs[k], a)
         IN IF ~r.ok THEN r
            ELSE construct_fields(subs, k + 1, r.args, vals \o r.val)

\* ParseFallback::eval that gives the default for every Message
ParseFallback_swallows_message(p, a, r) ==
    IF r.ok THEN Ok(r.args, r.val)
    ELSE IF r.err.kind = "ParseFailure" THEN Err(a, r.err)
         ELSE Ok(a, p.val)

ParseFallback_eval(p, a, r) ==
    IF r.ok THEN Ok(r.args, r.val)
    ELSE IF (r.err.kind = "Message" /\ ~r.err.recoverable) \/ r.err.kind = "ParseFailure"
         THEN Err(a, r.err)
         ELSE Ok(a, p.val)

ParseFallbackWith_eval(p, a, r) ==
    IF r.ok THEN Ok(r.args, r.val)
    ELSE IF (r.err.kind = "Message" /\ ~r.err.recoverable) \/ r.err.kind = "ParseFailure"
         THEN Err(a, r.err)
         ELSE IF ~p.fails THEN Ok(a, p.val)
              ELSE Err(a, Message(<<"fallback_with">>, FALSE))

\* the `while refined` loop of ParseAdjacent::eval: the guess, the last run of
\* the inner parser and the number of times refine_range has changed the guess
adjacent_loop(p, a, guess, scratch, n) ==
    LET r == refine_range(scratch, a, guess)
        res == eval(p.subs[1], restrict_to_range(a, r.guess))
    IN IF r.refined /\ n <= Len(a.items)
       THEN adjacent_loop(p, a, r.guess, res.args, n + 1)
       ELSE [guess |-> r.guess, res |-> res, n |-> n]

\* ParseAdjacent::eval that commits the first run, made on the whole pool
adjacent_commits_first_run(p, a) == eval(p.subs[1], a)

ParseAdjacent_eval(p, a) ==
    LET first == eval(p.subs[1], a)
        loop == adjacent_loop(p, a, Range(0, Len(a.items)), first.args, 0)
        guess == loop.guess
        left == IF guess.start > 0
                THEN copy_usage_from(loop.res.args, a, Range(0, guess.start))
                ELSE loop.res.args
        right == IF guess.end < Len(a.items)
                 THEN copy_usage_from(left, a, Range(guess.end, Len(a.items)))
                 ELSE left
    IN [loop.res EXCEPT !.args = right]

\* Args::from(&[])
NoArgs ==
    [items |-> <<>>, item_state |-> <<>>, remaining |-> 0, current |-> None,
     scope |-> Range(0, 0), head |-> usize_MAX, depth |-> 0, conflicts |-> {}]

\* what eval of ParseAnywhere returns and the starts it has run the inner parser at
Scanned(r, tried) ==
    [args |-> r.args, ok |-> r.ok, val |-> r.val, err |-> r.err, tried |-> tried]

\* the scan that takes the candidates from right to left
anywhere_loop_rightmost(p, a, todo, best_missing, best_consumed, tried) ==
    IF todo = {}
    THEN LET r == eval(p.subs[1], NoArgs)
         IN IF r.ok THEN Scanned(Ok(a, r.val), tried)
            ELSE Scanned(Err(a, Missing(best_missing)), tried)
    ELSE LET start == Max({ c.start : c \in todo })
             this_arg == (CHOOSE c \in todo : c.start = start).args
             rest == { c \in todo : c.start # start }
             scratch == restrict_to_range(this_arg, Range(start, start + 1))
             before == len(scratch)
         IN IF before = 0
            THEN anywhere_loop(p, a, {}, best_missing, best_consumed, tried)
            ELSE IF before = len(eval(p.subs[1], scratch).args)
            THEN anywhere_loop(p, a, rest, best_missing, best_consumed, tried)
            ELSE LET r == eval(p.subs[1], this_arg)
                     consumed == len(a) - len(r.args)
                     seen == tried \cup {start}
                 IN CASE r.ok \/ r.err.kind = "ParseFailure" ->
                           Scanned([r EXCEPT !.args = copy_usage_from(r.args, a, Range(0, start))],
                                   seen)
                      [] r.err.kind = "Missing" ->
                           IF consumed >= best_consumed
                           THEN anywhere_loop(p, a, rest, r.err.items, consumed, seen)
                           ELSE anywhere_loop(p, a, rest, best_missing, best_consumed, seen)
                      [] OTHER ->
                           IF consumed > 0 /\ ~p.catch THEN Scanned(Err(a, r.err), seen)
                           ELSE anywhere_loop(p, a, rest, best_missing, best_consumed, seen)

\* the scan that ends with the failure of the inner parser on the empty pool
anywhere_loop_returns_last_failure(p, a, todo, best_missing, best_consumed, tried) ==
    IF todo = {}
    THEN LET r == eval(p.subs[1], NoArgs)
         IN IF r.ok THEN Scanned(Ok(a, r.val), tried)
            ELSE Scanned(Err(a, r.err), tried)
    ELSE LET start == Min({ c.start : c \in todo })
             this_arg == (CHOOSE c \in todo : c.start = start).args
             rest == { c \in todo : c.start # start }
             scratch == restrict_to_range(this_arg, Range(start, start + 1))
             before == len(scratch)
         IN IF before = 0
            THEN anywhere_loop(p, a, {}, best_missing, best_consumed, tried)
            ELSE IF before = len(eval(p.subs[1], scratch).args)
            THEN anywhere_loop(p, a, rest, best_missing, best_consumed, tried)
            ELSE LET r == eval(p.subs[1], this_arg)
                     consumed == len(a) - len(r.args)
                     seen == tried \cup {start}
                 IN CASE r.ok \/ r.err.kind = "ParseFailure" ->
                           Scanned([r EXCEPT !.args = copy_usage_from(r.args, a, Range(0, start))],
                                   seen)
                      [] r.err.kind = "Missing" ->
                           IF consumed >= best_consumed
                           THEN anywhere_loop(p, a, rest, r.err.items, consumed, seen)
                           ELSE anywhere_loop(p, a, rest, best_missing, best_consumed, seen)
                      [] OTHER ->
                           IF consumed > 0 /\ ~p.catch THEN Scanned(Err(a, r.err), seen)
                           ELSE anywhere_loop(p, a, rest, best_missing, best_consumed, seen)

\* the scan that goes on after a Message marked recoverable
anywhere_loop_skips_recoverable(p, a, todo, best_missing, best_consumed, tried) ==
    IF todo = {}
    THEN LET r == eval(p.subs[1], NoArgs)
         IN IF r.ok THEN Scanned(Ok(a, r.val), tried)
            ELSE Scanned(Err(a, Missing(best_missing)), tried)
    ELSE LET start == Min({ c.start : c \in todo })
             this_arg == (CHOOSE c \in todo : c.start = start).args
             rest == { c \in todo : c.start # start }
             scratch == restrict_to_range(this_arg, Range(start, start + 1))
             before == len(scratch)
         IN IF before = 0
            THEN anywhere_loop(p, a, {}, best_missing, best_consumed, tried)
            ELSE IF before = len(eval(p.subs[1], scratch).args)
            THEN anywhere_loop(p, a, rest, best_missing, best_consumed, tried)
            ELSE LET r == eval(p.subs[1], this_arg)
                     consumed == len(a) - len(r.args)
                     seen == tried \cup {start}
                 IN CASE r.ok \/ r.err.kind = "ParseFailure" ->
                           Scanned([r EXCEPT !.args = copy_usage_from(r.args, a, Range(0, start))],
                                   seen)
                      [] r.err.kind = "Missing" ->
                           IF consumed >= best_consumed
                           THEN anywhere_loop(p, a, rest, r.err.items, consumed, seen)
                           ELSE anywhere_loop(p, a, rest, best_missing, best_consumed, seen)
                      [] OTHER ->
                           IF consumed > 0 /\ ~p.catch /\ ~r.err.recoverable
                           THEN Scanned(Err(a, r.err), seen)
                           ELSE anywhere_loop(p, a, rest, best_missing, best_consumed, seen)

\* the scan that swaps the pool of the attempt in when a Message ends it
anywhere_loop_commits_failure(p, a, todo, best_missing, best_consumed, tried) ==
    IF todo = {}
    THEN LET r == eval(p.subs[1], NoArgs)
         IN IF r.ok THEN Scanned(Ok(a, r.val), tried)
            ELSE Scanned(Err(a, Missing(best_missing)), tried)
    ELSE LET start == Min({ c.start : c \in todo })
             this_arg == (CHOOSE c \in todo : c.start = start).args
             rest == { c \in todo : c.start # start }
             scratch == restrict_to_range(this_arg, Range(start, start + 1))
             before == len(scratch)
         IN IF before = 0
            THEN anywhere_loop(p, a, {}, best_missing, best_consumed, tried)
            ELSE IF before = len(eval(p.subs[1], scratch).args)
            THEN anywhere_loop(p, a, rest, best_missing, best_consumed, tried)
            ELSE LET r == eval(p.subs[1], this_arg)
                     consumed == len(a) - len(r.args)
                     seen == tried \cup {start}
                 IN CASE r.ok \/ r.err.kind = "ParseFailure" ->
                           Scanned([r EXCEPT !.args = copy_usage_from(r.args, a, Range(0, start))],
                                   seen)
                      [] r.err.kind = "Missing" ->
                           IF consumed >= best_consumed
                           THEN anywhere_loop(p, a, rest, r.err.items, consumed, seen)
                           ELSE anywhere_loop(p, a, rest, best_missing, best_consumed, seen)
                      [] OTHER ->
                           IF consumed > 0 /\ ~p.catch
                           THEN Scanned(Err(copy_usage_from(r.args, a, Range(0, start)), r.err), seen)
                           ELSE anywhere_loop(p, a, rest, best_missing, best_consumed, seen)

\* the `for` loop of ParseAnywhere::eval over the candidates still to try
anywhere_loop(p, a, todo, best_missing, best_consumed, tried) ==
    IF todo = {}
    THEN LET r == eval(p.subs[1], NoArgs)
         IN IF r.ok THEN Scanned(Ok(a, r.val), tried)
            ELSE Scanned(Err(a, Missing(best_missing)), tried)
    ELSE LET start == Min({ c.start : c \in todo })
             this_arg == (CHOOSE c \in todo : c.start = start).args
             rest == { c \in todo : c.start # start }
             scratch == restrict_to_range(this_arg, Range(start, start + 1))
             before == len(scratch)
         IN IF before = 0
            THEN anywhere_loop(p, a, {}, best_missing, best_consumed, tried)
            ELSE IF before = len(eval(p.subs[1], scratch).args)
            THEN anywhere_loop(p, a, rest, best_missing, best_consumed, tried)
            ELSE LET r == eval(p.subs[1], this_arg)
                     consumed == len(a) - len(r.args)
                     seen == tried \cup {start}
                 IN CASE r.ok \/ r.err.kind = "ParseFailure" ->
                           Scanned([r EXCEPT !.args = copy_usage_from(r.args, a, Range(0, start))],
                                   seen)
                      [] r.err.kind = "Missing" ->
                           IF consumed >= best_consumed
                           THEN anywhere_loop(p, a, rest, r.err.items, consumed, seen)
                           ELSE anywhere_loop(p, a, rest, best_missing, best_consumed, seen)
                      [] OTHER ->
                           IF consumed > 0 /\ ~p.catch THEN Scanned(Err(a, r.err), seen)
                           ELSE anywhere_loop(p, a, rest, best_missing, best_consumed, seen)

ParseAnywhere_eval(p, a) ==
    LET r == anywhere_loop(p, a, ranges(a), meta_items(p), 0, {})
    IN [args |-> r.args, ok |-> r.ok, val |-> r.val, err |-> r.err]

eval(p, a) ==
    CASE p.kind = "req_flag" -> req_flag_eval(p, a)
      [] p.kind = "help" -> help_eval(p, a)
      [] p.kind = "adjacent" -> ParseAdjacent_eval(p, a)
      [] p.kind = "anywhere" -> ParseAnywhere_eval(p, a)
      [] p.kind = "argument" -> argument_eval(p, a)
      [] p.kind = "positional" -> positional_eval(p, a)
      [] p.kind = "command" ->
            LET entered == command_enter(p, a)
            IN IF entered.ok THEN eval(p.subs[1], entered.args) ELSE entered
      [] p.kind = "pure" -> Ok([a EXCEPT !.current = None], p.val)
      [] p.kind = "fail" -> Err([a EXCEPT !.current = None], Message(p.item, TRUE))
      [] p.kind = "parse" ->
            LET t == eval(p.subs[1], a)
            IN IF ~t.ok THEN t
               ELSE IF ~p.fails THEN Ok(t.args, <<"parse">> \o t.val)
                    ELSE Err(t.args, Message(<<"parse">>, FALSE))
      [] p.kind = "guard" ->
            LET t == eval(p.subs[1], a)
            IN IF ~t.ok THEN t
               ELSE IF ~p.fails THEN t
                    ELSE Err(t.args, Message(<<"guard">>, FALSE))
      [] p.kind = "construct" -> construct_fields(p.subs, 1, a, <<>>)
      [] p.kind = "or_else" ->
            ParseOrElse_eval(p, a, eval(p.subs[1], [a EXCEPT !.head = usize_MAX]),
                                   eval(p.subs[2], [a EXCEPT !.head = usize_MAX]))
      [] p.kind = "optional" ->
            LET o == parse_option(p.subs[1], a, p.catch)
            IN IF ~o.ok THEN Err(o.args, o.err)
               ELSE IF o.some THEN Ok(o.args, <<"Some">> \o o.val)
                    ELSE Ok(o.args, <<"None">>)
      [] p.kind = "many" ->
            LET r == many_loop(p, a, <<>>, 0, len(a))
            IN IF ~r.ok THEN Err(r.args, r.err) ELSE Ok(r.args, r.val)
      [] p.kind = "some" ->
            LET r == many_loop(p, a, <<>>, 0, len(a))
            IN IF ~r.ok THEN Err(r.args, r.err)
               ELSE IF r.n = 0 THEN Err(r.args, Message(p.val, TRUE))
                    ELSE Ok(r.args, r.val)
      [] p.kind = "fallback" -> ParseFallback_eval(p, a, eval(p.subs[1], a))
      [] p.kind = "fallback_with" -> ParseFallbackWith_eval(p, a, eval(p.subs[1], a))
      [] OTHER -> Err(a, NoError)

-----------------------------------------------------------------------------
(* Initial states and actions *)

Unbuilt ==
    /\ err = NoMessage
    /\ items = <<>>
    /\ item_state = <<>>
    /\ remaining = 0
    /\ current = None
    /\ scope = Range(0, 0)
    /\ pc = "start"
    /\ last = NoCall
    /\ head = usize_MAX
    /\ depth = 0
    /\ conflicts = {}
    /\ result = NoResult

Init ==
    /\ \E line \in CommandLines :
          /\ args = line.args
          /\ short_flags = line.short_flags
          /\ short_args = line.short_args
    /\ parser = NoParser
    /\ Unbuilt

InitTok ==
    /\ args \in SeqsUpTo(RawItems, MaxArgs)
    /\ short_flags \in SUBSET Letters
    /\ short_args \in SUBSET Letters
    /\ parser = NoParser
    /\ Unbuilt

Construct ==
    /\ pc = "start"
    /\ LET st == construct(args, short_flags, short_args)
       IN /\ err' = st.err
          /\ items' = st.items
          /\ item_state' = st.item_state
          /\ remaining' = st.remaining
          /\ current' = st.current
          /\ scope' = st.scope
    /\ last' = Call("construct", NoNamed, FALSE, <<>>, Unit)
    /\ UNCHANGED <<args, short_flags, short_args>>
    /\ UNCHANGED <<head, depth, conflicts, parser, result>>

Remove(index) ==
    /\ Becomes(remove(Self, index))
    /\ last' = Call("remove", NoNamed, FALSE, <<>>, Unit)

SetScope(range) ==
    /\ Becomes(set_scope(Self, range))
    /\ last' = Call("set_scope", NoNamed, FALSE, <<>>, Unit)

SaveConflicts(loser, win) ==
    /\ Becomes(save_conflicts(Self, loser, win))
    /\ last' = Call("save_conflicts", NoNamed, FALSE, <<>>, Unit)

TakeFlag(named) ==
    LET r == take_flag(Self, named)
    IN /\ Becomes(r.self)
       /\ last' = Call("take_flag", named, FALSE, <<>>, r)

TakeArg(named, adjacent) ==
    LET r == take_arg(Self, named, adjacent)
    IN /\ Becomes(r.self)
       /\ last' = Call("take_arg", named, adjacent, <<>>, r)

TakePositionalWord ==
    LET r == take_positional_word(Self)
    IN /\ Becomes(r.self)
       /\ last' = Call("take_positional_word", NoNamed, FALSE, <<>>, r)

TakeCmd(word) ==
    LET r == take_cmd(Self, word)
    IN /\ Becomes(r.self)
       /\ last' = Call("take_cmd", NoNamed, FALSE, word, r)

Ranges == { Range(s, e) : s \in 0..Len(items), e \in 0..Len(items) }

\* the status lists of a losing clone of this pool; save_conflicts reads only
\* parsed() of the loser's statuses
Losers == [1..Len(items) -> {Unparsed, Parsed}]

Built == pc = "built" /\ pc' = "built"

Once == pc = "built" /\ pc' = "done"

DoConstruct == Construct /\ pc' = "built"

DoRemove == Built /\ \E index \in 0..Len(items) : Remove(index)

DoSetScope == Built /\ \E range \in Ranges : range.start <= range.end /\ SetScope(range)

DoSaveConflicts == Built /\ \E loser \in Losers, win \in 0..MaxWin : SaveConflicts(loser, win)

DoTakeFlag == Built /\ \E named \in NamedArgs : TakeFlag(named)

DoTakeArg == Built /\ \E named \in NamedArgs, adjacent \in BOOLEAN : TakeArg(named, adjacent)

DoTakePositionalWord == Built /\ TakePositionalWord

DoTakeCmd == Built /\ \E word \in Words : TakeCmd(word)

\* the status lists of the pool this pool was cloned from: consumption only
\* grows, so what is present now was present in the original
Originals ==
    { original \in [1..Len(items) -> {Unparsed, Parsed}] :
        \A i \in 1..Len(items) :
            ItemState_present(item_state[i]) => ItemState_present(original[i]) }

\* the caller goes on with a candidate pool of ranges()
DoRanges ==
    /\ Built
    /\ \E candidate \in ranges(Self) :
          /\ Becomes(candidate.args)
          /\ last' = [Call("ranges", NoNamed, FALSE, <<>>, Unit) EXCEPT !.pos = candidate.start]

DoAdjacentScope ==
    /\ Built
    /\ \E original \in Originals :
          LET r == adjacent_scope(Self, original)
          IN /\ r.some
             /\ Becomes(set_scope(Self, r.range))
             /\ last' = Call("adjacent_scope", NoNamed, FALSE, <<>>, Unit)

DoAdjacentlyAvailableFrom ==
    /\ Built
    /\ \E start \in 0..Len(items) :
          LET r == adjacently_available_from(Self, start)
          IN /\ r.some
             /\ Becomes(set_scope(Self, r.range))
             /\ last' = [Call("adjacently_available_from", NoNamed, FALSE, <<>>, Unit)
                            EXCEPT !.pos = start]

Next ==
    \/ DoConstruct
    \/ DoRemove
    \/ DoSetScope
    \/ DoSaveConflicts
    \/ DoTakeFlag
    \/ DoTakeArg
    \/ DoTakePositionalWord
    \/ DoTakeCmd

Spec == Init /\ [][Next]_vars

\* the tokenizer on every command line of up to MaxArgs raw items, followed
\* by one primitive call on the fresh pool
OnceTakeFlag == Once /\ \E named \in NamedArgs : TakeFlag(named)

OnceTakeArg == Once /\ \E named \in NamedArgs, adjacent \in BOOLEAN : TakeArg(named, adjacent)

OnceTakePositionalWord == Once /\ TakePositionalWord

OnceTakeCmd == Once /\ \E word \in Words : TakeCmd(word)

NextTok ==
    \/ DoConstruct
    \/ OnceTakeFlag
    \/ OnceTakeArg
    \/ OnceTakePositionalWord
    \/ OnceTakeCmd

SpecTok == InitTok /\ [][NextTok]_vars

-----------------------------------------------------------------------------
(* Parser::eval on a fresh pool *)

SelfArgs ==
    [items |-> items, item_state |-> item_state, remaining |-> remaining,
     current |-> current, scope |-> scope,
     head |-> head, depth |-> depth, conflicts |-> conflicts]

\* the clone a branch of or_else starts from
Fork == [SelfArgs EXCEPT !.head = usize_MAX]

a_arg == Argument(NamedArg({"a"}, {}), "-a A")

b_arg == Argument(NamedArg({"b"}, {}), "-b B")

a_flag == ReqFlag(NamedArg({"a"}, {}), "-a")

b_flag == ReqFlag(NamedArg({"b"}, {}), "-b")

Leaves ==
    { a_arg, b_arg, a_flag, b_flag,
      Positional("ARG"),
      ParsePure(<<"pure">>),
      ParseFail("fail") }

\* parsers that consume before they fail, and commands
Branches ==
    Leaves \cup
    { Command(<<"a", "b">>, "ab", b_flag),
      Command(<<"a", "b">>, "ab", ParsePure(<<"cmd">>)),
      ParseCon(<<a_flag, b_flag>>),
      ParseCon(<<a_flag, ParseFail("fail")>>),
      ParseWith(a_arg, TRUE),
      ParseGuard(b_arg, FALSE) }

Alternatives == { ParseOrElse(this, that) : this \in Branches, that \in Branches }

Wrapped(inner) ==
    { ParseOptional(inner, FALSE), ParseOptional(inner, TRUE),
      ParseMany(inner, FALSE), ParseMany(inner, TRUE),
      ParseSome(inner, <<"some">>, FALSE), ParseSome(inner, <<"some">>, TRUE),
      ParseFallback(inner, <<"default">>),
      ParseFallbackWith(inner, <<"default">>, FALSE),
      ParseFallbackWith(inner, <<"default">>, TRUE) }

Parsers ==
    Alternatives
      \cup UNION { Wrapped(inner) : inner \in Branches }
      \cup UNION { Wrapped(ParseOrElse(a_arg, that)) : that \in Branches }

\* command lines the parsers are run on
EvalLines ==
    { << >>,
      << <<"-", "a">> >>,                                              \* -a
      << <<"-", "a">>, <<"1">> >>,                                     \* -a 1
      << <<"-", "b">>, <<"2">> >>,                                     \* -b 2
      << <<"-", "a">>, <<"-", "b">> >>,                                \* -a -b
      << <<"-", "b">>, <<"-", "a">> >>,                                \* -b -a
      << <<"1">>, <<"-", "a">> >>,                                     \* 1 -a
      << <<"a", "b">> >>,                                              \* ab
      << <<"a", "b">>, <<"-", "b">> >>,                                \* ab -b
      << <<"-", "a">>, <<"-", "b">>, <<"2">> >>,                       \* -a -b 2
      << <<"-", "a">>, <<"1">>, <<"-", "a">> >>,                       \* -a 1 -a
      << <<"-", "a">>, <<"1">>, <<"-", "b">>, <<"2">> >>,              \* -a 1 -b 2
      << <<"-", "b">>, <<"2">>, <<"-", "a">>, <<"1">> >>,              \* -b 2 -a 1
      << <<"-", "a">>, <<"1">>, <<"-", "a">>, <<"2">> >> }             \* -a 1 -a 2

InitEval ==
    /\ args \in EvalLines
    /\ short_flags = {}
    /\ short_args = {}
    /\ parser \in Parsers
    /\ Unbuilt

BecomesArgs(a) ==
    /\ item_state' = a.item_state
    /\ remaining' = a.remaining
    /\ current' = a.current
    /\ scope' = a.scope
    /\ head' = a.head
    /\ depth' = a.depth
    /\ conflicts' = a.conflicts
    /\ UNCHANGED <<args, short_flags, short_args, err, items, parser>>

\* a parser that precedes the parser under study in a construct! succeeds
DoEvalBefore ==
    /\ Built
    /\ \E before \in Leaves :
          LET r == eval(before, SelfArgs)
          IN /\ r.ok
             /\ BecomesArgs(r.args)
    /\ last' = Call("before", NoNamed, FALSE, <<>>, Unit)
    /\ UNCHANGED result

DoEval ==
    /\ Once
    /\ LET r == eval(parser, SelfArgs)
       IN /\ BecomesArgs(r.args)
          /\ result' = [ok |-> r.ok, val |-> r.val, err |-> r.err]
    /\ last' = Call("eval", NoNamed, FALSE, <<>>, Unit)

NextEval ==
    \/ DoConstruct
    \/ DoEvalBefore
    \/ DoEval

SpecEval == InitEval /\ [][NextEval]_vars

\* Parser::eval of adjacent and anywhere, and of the combinators around a
\* parser that ends the parse with a help request

help == ParseHelp(NamedArg({"h"}, {}), "-h")

\* a required flag followed by a positional item
a_with_value == ParseCon(<<a_flag, Positional("ARG")>>)

\* consumes -a, then fails with a Message marked recoverable
a_then_fail == ParseCon(<<a_flag, ParseFail("fail")>>)

\* construct!(req_flag -a, req_flag -b, req_flag -c), which misses -c after
\* consuming two tokens and -b after consuming one
a_b_c == ParseCon(<<a_flag, b_flag, ReqFlag(NamedArg({"c"}, {}), "-c")>>)

Groups ==
    { a_flag, a_arg, Positional("ARG"), ParsePure(<<"pure">>), ParseFail("fail"), help,
      a_with_value, a_then_fail,
      ParseCon(<<a_flag, b_flag>>),
      ParseCon(<<a_flag, b_arg>>),
      a_b_c,
      ParseCon(<<a_flag, help>>),
      ParseCon(<<a_flag, ParseOptional(b_flag, FALSE)>>),
      ParseWith(a_with_value, TRUE),
      ParseOrElse(a_then_fail, b_flag),
      ParseOrElse(a_with_value, b_flag),
      ParseOrElse(help, a_flag),
      ParseOptional(a_flag, FALSE),
      Command(<<"a", "b">>, "ab", help) }

Narrowed(inner) ==
    { ParseAdjacent(inner), ParseAnywhere(inner, FALSE), ParseAnywhere(inner, TRUE) }

NarrowParsers ==
    UNION { Narrowed(inner) : inner \in Groups }
      \cup UNION { Wrapped(inner) : inner \in { help, ParseCon(<<a_flag, help>>),
                                                Command(<<"a", "b">>, "ab", help) } }
      \cup { ParseMany(ParseAnywhere(a_with_value, FALSE), FALSE),
             ParseAnywhere(ParseAdjacent(a_with_value), FALSE),
             ParseOptional(ParseAnywhere(help, TRUE), TRUE) }

NarrowLines ==
    { << >>,
      << <<"-", "a">> >>,                                              \* -a
      << <<"-", "h">> >>,                                              \* -h
      << <<"-", "a">>, <<"1">> >>,                                     \* -a 1
      << <<"1">>, <<"-", "a">> >>,                                     \* 1 -a
      << <<"-", "a">>, <<"-", "b">> >>,                                \* -a -b
      << <<"-", "b">>, <<"-", "a">> >>,                                \* -b -a
      << <<"-", "a">>, <<"-", "h">> >>,                                \* -a -h
      << <<"a", "b">>, <<"-", "h">> >>,                                \* ab -h
      << <<"-", "b">>, <<"-", "a">>, <<"1">> >>,                       \* -b -a 1
      << <<"-", "a">>, <<"-", "b">>, <<"-", "a">> >>,                  \* -a -b -a
      << <<"-", "a">>, <<"-", "b">>, <<"1">> >>,                       \* -a -b 1
      << <<"-", "a">>, <<"-", "a">>, <<"1">> >>,                       \* -a -a 1
      << <<"-", "a">>, <<"1">>, <<"-", "h">> >>,                       \* -a 1 -h
      << <<"1">>, <<"-", "a">>, <<"2">> >>,                            \* 1 -a 2
      << <<"-", "a">>, <<"1">>, <<"-", "a">>, <<"2">> >>,              \* -a 1 -a 2
      << <<"-", "a">>, <<"-", "b">>, <<"-", "a">>, <<"1">> >>,         \* -a -b -a 1
      << <<"-", "b">>, <<"1">>, <<"-", "a">>, <<"-", "h">> >>,         \* -b 1 -a -h
      << <<"-", "a">>, <<"-", "b">>, <<"-", "a">>, <<"-", "b">>, <<"1">> >> }  \* -a -b -a -b 1

InitNarrow ==
    /\ args \in NarrowLines
    /\ short_flags = {}
    /\ short_args = {}
    /\ parser \in NarrowParsers
    /\ Unbuilt

SpecNarrow == InitNarrow /\ [][NextEval]_vars

\* the status lists of another clone of the pool this pool was cloned from
Others == [1..Len(items) -> ItemState]

\* pick_winner against another clone; val of the call holds the statuses of
\* the other pool, res and pos the pair returned
PickWinner(other) ==
    LET r == pick_winner(Self, other)
    IN /\ Becomes(Self)
       /\ last' = [Call("pick_winner", NoNamed, FALSE, <<>>, Unit)
                      EXCEPT !.res = IF r.me THEN "self" ELSE "other",
                             !.pos = r.ix,
                             !.val = other]

DoPickWinner == Once /\ \E other \in Others : PickWinner(other)

\* pools with any consumed set and any conflicts, compared with a clone
NextWinner ==
    \/ DoConstruct
    \/ DoRemove
    \/ DoSaveConflicts
    \/ DoPickWinner

SpecWinner == Init /\ [][NextWinner]_vars

\* pools with any consumed set, any scope and any conflicts
NextConflicts ==
    \/ DoConstruct
    \/ DoRemove
    \/ DoSetScope
    \/ DoSaveConflicts

SpecConflicts == Init /\ [][NextConflicts]_vars

\* the pool operations together with the scopes ranges(), adjacent_scope and
\* adjacently_available_from compute
NextScope ==
    \/ Next
    \/ DoRanges
    \/ DoAdjacentScope
    \/ DoAdjacentlyAvailableFrom

SpecScope == Init /\ [][NextScope]_vars

-----------------------------------------------------------------------------
TypeOK ==
    /\ Len(item_state) = Len(items)
    /\ remaining \in 0..Len(items)

-----------------------------------------------------------------------------
(* Vocabulary of the properties *)

InScope(ix) == scope.start <= ix /\ ix < scope.end

\* indices of the tokens that are inside the active scope and not Parsed
PresentInScope ==
    { ix \in 0..(Len(items) - 1) : InScope(ix) /\ At(item_state, ix).tag # "Parsed" }

\* indices whose status the step turns from not Parsed to Parsed
Consumed ==
    { ix \in 0..(Len(items) - 1) :
        At(item_state, ix).tag # "Parsed" /\ At(item_state', ix).tag = "Parsed" }

PoolUnchanged == UNCHANGED <<items, item_state, remaining, scope>>

-----------------------------------------------------------------------------
\* C1: in every reachable pool state the cached counter remaining (len) is
\* the number of tokens inside the active scope whose status is not Parsed,
\* and is_empty holds exactly when that number is 0.
RemainingCountsPresentInScope ==
    /\ len(Self) = Cardinality(PresentInScope)
    /\ is_empty(Self) <=> Cardinality(PresentInScope) = 0

\* a narrowed scope that holds a consumed and a conflicting token and leaves
\* an unconsumed token outside
RemainingWitness ==
    /\ pc = "built"
    /\ remaining = 1
    /\ \E i, j \in scope.start..(scope.end - 1) :
          /\ At(item_state, i).tag = "Parsed"
          /\ At(item_state, j).tag = "Conflict"
    /\ \E k \in 0..(Len(items) - 1) : ~InScope(k) /\ At(item_state, k).tag = "Unparsed"

-----------------------------------------------------------------------------
(* What the token grammar says of a raw command line, stated on args *)

DoubleDash == <<"-", "-">>

\* a bundled short item: a dash followed by two or more letters
IsBundle(os) ==
    /\ Len(os) >= 3
    /\ os[1] = "-"
    /\ \A i \in 2..Len(os) : os[i] \in Letters

BundleCanBeFlags(os) == \A i \in 2..Len(os) : os[i] \in short_flags

BundleCanBeArg(os) == os[2] \in short_args

IsAmbiguous(os) == IsBundle(os) /\ BundleCanBeFlags(os) /\ BundleCanBeArg(os)

\* `-c=value` and `--name=value`
HasAttachedValue(os) ==
    /\ Len(os) >= 2
    /\ os[1] = "-"
    /\ os # DoubleDash
    /\ \E i \in 1..Len(os) : os[i] = "="

ValueOf(os) == SubSeq(os, Min({ i \in 1..Len(os) : os[i] = "=" }) + 1, Len(os))

\* number of tokens a raw item stands for outside of positional-only mode
Width(os) ==
    CASE IsBundle(os) /\ BundleCanBeFlags(os) /\ ~BundleCanBeArg(os) -> Len(os) - 1
      [] IsBundle(os) /\ ~BundleCanBeFlags(os) /\ BundleCanBeArg(os) -> 2
      [] HasAttachedValue(os) -> 2
      [] OTHER -> 1

DoubleDashes == { j \in 1..Len(args) : args[j] = DoubleDash }

\* the raw item the tokenizer stops at: the first ambiguous bundle that no
\* `--` precedes
Ambiguous ==
    { j \in 1..Len(args) :
        /\ IsAmbiguous(args[j])
        /\ \A i \in 1..(j - 1) : args[i] # DoubleDash /\ ~IsAmbiguous(args[i]) }

\* the first `--`, when the tokenizer gets to it
Marker ==
    { j \in DoubleDashes :
        /\ j = Min(DoubleDashes)
        /\ \A i \in 1..(j - 1) : ~IsAmbiguous(args[i]) }

\* raw item j is classified by the disambiguation rules
Classified(j) ==
    /\ \A i \in 1..(j - 1) : args[i] # DoubleDash /\ ~IsAmbiguous(args[i])

RECURSIVE TokensBefore(_)
\* 0-based index of the first token of raw item j, for a j the tokenizer gets to
TokensBefore(j) ==
    IF j = 1 THEN 0
    ELSE TokensBefore(j - 1)
           + (IF \E m \in Marker : m < j - 1 THEN 1 ELSE Width(args[j - 1]))

-----------------------------------------------------------------------------
\* C2: a bundled short item -xyz that construct classifies yields: an
\* Ambiguity error if every letter is a known flag letter and the first is a
\* known value-taking letter; one ShortFlag without attached value per letter
\* if only the former; a ShortFlag with attached value for the first letter
\* followed by a Word of the remaining letters if only the latter; a single
\* Word of the whole item otherwise.
DisambiguationTruthTable ==
    pc # "start" =>
      \A j \in 1..Len(args) :
        IsBundle(args[j]) /\ Classified(j) =>
          LET os == args[j]
              off == TokensBefore(j)
              n == Len(os) - 1
          IN CASE BundleCanBeFlags(os) /\ BundleCanBeArg(os) ->
                    err.kind = "Ambiguity"
               [] BundleCanBeFlags(os) /\ ~BundleCanBeArg(os) ->
                    /\ Len(items) >= off + n
                    /\ \A i \in 1..n :
                          /\ items[off + i].kind = "Short"
                          /\ items[off + i].name = <<os[i + 1]>>
                          /\ items[off + i].adj = FALSE
                    /\ j = Len(args) => Len(items) = off + n
               [] ~BundleCanBeFlags(os) /\ BundleCanBeArg(os) ->
                    /\ Len(items) >= off + 2
                    /\ items[off + 1].kind = "Short"
                    /\ items[off + 1].name = <<os[2]>>
                    /\ items[off + 1].adj = TRUE
                    /\ items[off + 2] = Word(SubSeq(os, 3, Len(os)))
                    /\ j = Len(args) => Len(items) = off + 2
               [] OTHER ->
                    /\ Len(items) >= off + 1
                    /\ items[off + 1] = Word(os)
                    /\ j = Len(args) => Len(items) = off + 1

\* a bundle in second place that is split into a flag and its value, with a
\* letter other than the first among the value-taking letters
DisambiguationWitness ==
    /\ pc = "built"
    /\ Len(args) = 2
    /\ args[2] = <<"-", "a", "b">>
    /\ args[1] = <<"-", "a", "=", "1">>
    /\ short_args = {"a"}
    /\ short_flags = {"b"}
    /\ Len(items) = 4

\* C5: at an ambiguous bundle construct reports an Ambiguity error carrying
\* the bundle's letters and the index of the token that holds the bundle's
\* text, and no raw item after the bundle contributes a token.
AmbiguityStopsTokenizing ==
    pc # "start" =>
      \A j \in Ambiguous :
        /\ err = Ambiguity(TokensBefore(j), SubSeq(args[j], 2, Len(args[j])))
        /\ Len(items) = TokensBefore(j) + 1
        /\ At(items, err.ix) = Word(args[j])

\* an ambiguous bundle with a raw item after it
AmbiguityWitness ==
    /\ pc = "built"
    /\ err.kind = "Ambiguity"
    /\ \E j \in Ambiguous : j < Len(args)

\* C4: once construct meets the first `--`, every later raw item is one
\* PositionalWord token holding the item's text, whatever the text; take_flag
\* and take_arg never take such a token as flag or as value, and
\* take_positional_word returns its text unchanged, tagged strict.
DoubleDashMakesPositionals ==
    /\ pc # "start" =>
         \A m \in Marker :
           /\ Len(items) = TokensBefore(m) + 1 + (Len(args) - m)
           /\ \A j \in (m + 1)..Len(args) :
                 At(items, TokensBefore(m) + (j - m)) = PosWord(args[j])
    /\ last.op = "take_flag" /\ last.res = "true" =>
         At(items, last.pos).kind # "PosWord"
    /\ last.op = "take_arg" /\ last.res = "Ok(Some)" =>
         /\ At(items, last.pos).kind # "PosWord"
         /\ At(items, last.pos + 1).kind # "PosWord"
    /\ last.op = "take_positional_word" /\ last.res = "Ok(Some)"
          /\ At(items, last.pos).kind = "PosWord" =>
         /\ last.strict
         /\ \E m \in Marker :
               /\ last.pos > TokensBefore(m)
               /\ last.val = args[m + (last.pos - TokensBefore(m))]

\* `-- --ab=1`: the item after the marker is returned whole as a positional
DoubleDashWitness ==
    /\ last.op = "take_positional_word"
    /\ last.res = "Ok(Some)"
    /\ last.strict
    /\ last.val = <<"-", "-", "a", "b", "=", "1">>
    /\ remaining = 0

-----------------------------------------------------------------------------
(* Vocabulary of the properties of the primitive consumers.  In an action   *)
(* formula the unprimed pool is the pool before the call and last' tells    *)
(* which call the step is and what it returned.                             *)

\* present in-scope tokens the matcher of the call accepts
Matching(named, adjacent) ==
    { ix \in PresentInScope : matches_arg(named, At(items, ix), adjacent) }

\* the token after ix is a present in-scope Word
ValueFollows(ix) == (ix + 1) \in PresentInScope /\ At(items, ix + 1).kind = "Word"

Succeeded(call) ==
    \/ call.op \in {"take_flag", "take_cmd"} /\ call.res = "true"
    \/ call.op \in {"take_arg", "take_positional_word"} /\ call.res = "Ok(Some)"

Failed(call) ==
    \/ call.op \in {"take_flag", "take_cmd"} /\ call.res = "false"
    \/ call.op \in {"take_arg", "take_positional_word"} /\ call.res # "Ok(Some)"

\* the indices a successful call reports as taken
Taken(call) ==
    IF call.op = "take_arg" THEN {call.pos, call.pos + 1} ELSE {call.pos}

-----------------------------------------------------------------------------
\* C3: a primitive that succeeds lowers remaining by exactly the number of
\* tokens it took (1 for take_flag, take_positional_word and take_cmd, 2 for
\* take_arg) and every taken index, present before, is no longer present; a
\* primitive that reports not-found or an error leaves remaining unchanged.
TakingLowersRemaining ==
    [][ /\ Succeeded(last') =>
             /\ Cardinality(Taken(last')) = (IF last'.op = "take_arg" THEN 2 ELSE 1)
             /\ remaining' = remaining - Cardinality(Taken(last'))
             /\ Consumed = Taken(last')
             /\ \A ix \in Taken(last') :
                   /\ ix \in PresentInScope
                   /\ ~ItemState_present(At(item_state', ix))
        /\ Failed(last') => remaining' = remaining
      ]_vars

\* take_arg took a flag and its value and left other tokens in the pool
TakingWitness ==
    /\ last.op = "take_arg"
    /\ last.res = "Ok(Some)"
    /\ remaining > 0
    /\ At(item_state, last.pos).tag = "Parsed"
    /\ At(item_state, last.pos + 1).tag = "Parsed"

\* C6 as stated: whenever some present in-scope flag matching the name is
\* immediately followed by a present in-scope Word, take_arg returns the text
\* of such a Word and removes that flag and that Word.
TakeArgReturnsValueOfAnyMatch ==
    [][ last'.op = "take_arg" =>
          LET valued == { ix \in Matching(last'.named, last'.adjacent) : ValueFollows(ix) }
          IN valued # {} =>
               /\ last'.res = "Ok(Some)"
               /\ \E ix \in valued :
                     /\ last'.val = At(items, ix + 1).os
                     /\ Consumed = {ix, ix + 1}
      ]_vars

\* C6, amended: when the leftmost present in-scope flag matching the name,
\* the one take_arg finds, is immediately followed by a present in-scope
\* Word, take_arg returns that Word's text and removes both tokens, leaving
\* the pool empty if they were its only tokens; `-c=value` and `--name=value`
\* are tokenized as a flag with attached value followed by a Word holding the
\* text after the first `=` unchanged, also when it starts with a dash, so
\* this holds for them in adjacent and non-adjacent mode.
TakeArgReturnsValue ==
    [][ /\ \A j \in 1..Len(args) :
              HasAttachedValue(args[j]) /\ Classified(j) /\ Ambiguous = {} =>
                /\ At(items', TokensBefore(j)).kind \in {"Short", "Long"}
                /\ At(items', TokensBefore(j)).adj
                /\ At(items', TokensBefore(j)).os = args[j]
                /\ At(items', TokensBefore(j) + 1) = Word(ValueOf(args[j]))
        /\ last'.op = "take_arg" =>
             LET found == Matching(last'.named, last'.adjacent)
             IN found # {} /\ ValueFollows(Min(found)) =>
                  /\ last'.res = "Ok(Some)"
                  /\ last'.val = At(items, Min(found) + 1).os
                  /\ Consumed = {Min(found), Min(found) + 1}
                  /\ PresentInScope = {Min(found), Min(found) + 1} => remaining' = 0
      ]_vars

\* `-a=-1` taken in adjacent mode: the value -1 comes back and the pool is empty
TakeArgWitness ==
    /\ last.op = "take_arg"
    /\ last.adjacent
    /\ last.res = "Ok(Some)"
    /\ last.val = <<"-", "1">>
    /\ args = << <<"-", "a", "=", "-", "1">> >>
    /\ remaining = 0

\* C7: when the flag take_arg finds is not immediately followed by a present
\* in-scope Word, take_arg fails with NoArgument carrying the flag's index and
\* leaves statuses, remaining, cursor and scope as they were.
TakeArgWithoutValue ==
    [][ last'.op = "take_arg" =>
          LET found == Matching(last'.named, last'.adjacent)
          IN found # {} /\ ~ValueFollows(Min(found)) =>
               /\ last'.res = "NoArgument"
               /\ last'.pos = Min(found)
               /\ UNCHANGED <<items, item_state, remaining, current, scope>>
      ]_vars

\* the value of the flag is an unconsumed Word just outside the scope
TakeArgWithoutValueWitness ==
    /\ last.op = "take_arg"
    /\ last.res = "NoArgument"
    /\ last.pos + 1 = scope.end
    /\ scope.end < Len(items)
    /\ At(items, last.pos + 1).kind = "Word"
    /\ At(item_state, last.pos + 1).tag = "Unparsed"
    /\ current # None

\* C8: take_positional_word looks at the first present in-scope token only:
\* a PositionalWord is removed and returned with strict = true, a Word is
\* removed and returned with strict = false, a flag gives Missing at that
\* token's index and removes nothing, and no present token gives Ok(None)
\* and removes nothing.
TakePositionalLooksAtFirst ==
    [][ last'.op = "take_positional_word" =>
          IF PresentInScope = {}
          THEN last'.res = "Ok(None)" /\ PoolUnchanged
          ELSE LET first == Min(PresentInScope)
                   arg == At(items, first)
               IN CASE arg.kind \in {"PosWord", "Word"} ->
                         /\ last'.res = "Ok(Some)"
                         /\ last'.val = arg.os
                         /\ last'.strict = (arg.kind = "PosWord")
                         /\ Consumed = {first}
                         /\ remaining' = remaining - 1
                    [] OTHER ->
                         /\ last'.res = "Missing"
                         /\ last'.pos = first
                         /\ PoolUnchanged
      ]_vars

\* a flag in first place fails the call although a word follows it
TakePositionalWitness ==
    /\ last.op = "take_positional_word"
    /\ last.res = "Missing"
    /\ \E ix \in PresentInScope : ix > last.pos /\ At(items, ix).kind = "Word"

\* C9: take_flag removes exactly the leftmost present in-scope token that
\* matches the name and returns true, whatever precedes it; with no such
\* token it returns false and leaves the pool as it was.  So each success
\* lowers the number of takeable occurrences by one and false comes exactly
\* when none is left.
TakeFlagTakesLeftmost ==
    [][ last'.op = "take_flag" =>
          LET found == Matching(last'.named, FALSE)
          IN IF found # {}
             THEN /\ last'.res = "true"
                  /\ last'.pos = Min(found)
                  /\ item_state' = SetAt(item_state, Min(found), Parsed)
                  /\ remaining' = remaining - 1
                  /\ { ix \in PresentInScope' : matches_arg(last'.named, At(items, ix), FALSE) }
                        = found \ {Min(found)}
             ELSE /\ last'.res = "false"
                  /\ UNCHANGED <<items, item_state, remaining, current, scope>>
      ]_vars

\* the first of two occurrences of a flag is taken, the second one remains
TakeFlagWitness ==
    /\ last.op = "take_flag"
    /\ last.res = "true"
    /\ Matching(last.named, FALSE) # {}
    /\ \A ix \in Matching(last.named, FALSE) : ix > last.pos

\* C10: take_cmd returns true only when the first present in-scope token is a
\* Word equal to the literal, and then removes exactly that token; otherwise
\* it returns false, removes nothing and leaves remaining unchanged.
TakeCmdLooksAtFirst ==
    [][ last'.op = "take_cmd" =>
          IF PresentInScope # {} /\ At(items, Min(PresentInScope)) = Word(last'.word)
          THEN /\ last'.res = "true"
               /\ Consumed = {Min(PresentInScope)}
               /\ item_state' = SetAt(item_state, Min(PresentInScope), Parsed)
               /\ remaining' = remaining - 1
          ELSE /\ last'.res = "false"
               /\ PoolUnchanged
      ]_vars

\* the literal is in the pool, but not in first place
TakeCmdWitness ==
    /\ last.op = "take_cmd"
    /\ last.res = "false"
    /\ \E ix \in PresentInScope :
          /\ ix > Min(PresentInScope)
          /\ At(items, ix) = Word(last.word)

-----------------------------------------------------------------------------
\* C11: present(index) is true exactly when index lies inside the active
\* scope and the token's status is not Parsed; for an unconsumed token whose
\* index lies outside the active scope present(index) is not true.
PresentMeansInScopeAndNotParsed ==
    pc = "built" =>
      \A ix \in 0..(Len(items) - 1) :
        State_present(Self, ix) <=> (InScope(ix) /\ At(item_state, ix).tag # "Parsed")

-----------------------------------------------------------------------------
\* the statuses of the tokens outside the active scope
OutOfScope == { ix \in 0..(Len(items) - 1) : ~InScope(ix) }

Primitives == {"remove", "take_flag", "take_arg", "take_positional_word", "take_cmd"}

\* C12: no primitive returns or changes the status of a token outside the
\* active scope: get finds no token there, the index (and, for take_arg, the
\* value index) a successful call reports lies inside the scope, and after
\* remove, take_flag, take_arg, take_positional_word or take_cmd every
\* out-of-scope token has the status it had before, the would-be value token
\* of take_arg included when the matching flag is the last in-scope token.
PrimitivesStayInScope ==
    [][ last'.op \in Primitives =>
          /\ \A ix \in OutOfScope :
                /\ ~get(Self, ix).some
                /\ At(item_state', ix) = At(item_state, ix)
          /\ scope' = scope
          /\ Succeeded(last') => \A ix \in Taken(last') : InScope(ix)
          /\ last'.op = "take_arg" /\ Matching(last'.named, last'.adjacent) # {}
                /\ ~InScope(Min(Matching(last'.named, last'.adjacent)) + 1) =>
               /\ last'.res = "NoArgument"
               /\ item_state' = item_state
      ]_vars

\* `-a 1` with the scope narrowed to the flag: take_arg leaves the Word after
\* the scope unconsumed
PrimitivesStayInScopeWitness ==
    /\ last.op = "take_arg"
    /\ last.res = "NoArgument"
    /\ args = << <<"-", "a">>, <<"1">> >>
    /\ scope = Range(0, 1)
    /\ At(item_state, 1).tag = "Unparsed"

-----------------------------------------------------------------------------
\* C13: in every reachable pool state, the candidate pools of ranges() and
\* the pools after set_scope on a range computed by adjacent_scope or
\* adjacently_available_from included, the status list is as long as the
\* token list and the active scope is a sub-range of [0, number of tokens).
LengthsAndScopeInvariant ==
    /\ Len(item_state) = Len(items)
    /\ 0 <= scope.start
    /\ scope.start <= scope.end
    /\ scope.end <= Len(items)
    /\ pc = "built" =>
         \A candidate \in ranges(Self) :
            /\ Len(candidate.args.item_state) = Len(candidate.args.items)
            /\ 0 <= candidate.args.scope.start
            /\ candidate.args.scope.start <= candidate.args.scope.end
            /\ candidate.args.scope.end <= Len(candidate.args.items)

\* adjacent_scope narrowed the scope to a block of consumed tokens that
\* starts after the first token and ends before the last
LengthsAndScopeWitness ==
    /\ last.op = "adjacent_scope"
    /\ 0 < scope.start
    /\ scope.start < scope.end
    /\ scope.end < Len(items)
    /\ remaining = 0
    /\ ranges(Self) # {}

-----------------------------------------------------------------------------
(* Vocabulary of the properties of the combinators.  In an action formula   *)
(* the unprimed pool is the caller's pool before eval, the primed pool and  *)
(* result' are what eval left and returned.                                 *)

\* the step is the call of eval on a parser of this kind
Evaluates(kind) == parser.kind = kind /\ last'.op = "eval"

\* what the two alternatives of or_else do, each on its own clone
BranchA == eval(parser.subs[1], Fork)

BranchB == eval(parser.subs[2], Fork)

\* what the inner parser of optional, many, some, fallback does on the pool
Inner == eval(parser.subs[1], SelfArgs)

\* the tokens a run consumed: present in the caller's pool, Parsed in its own
ConsumedBy(r) ==
    { ix \in 0..(Len(items) - 1) :
        /\ ItemState_present(At(item_state, ix))
        /\ ItemState_parsed(At(r.args.item_state, ix)) }

\* index of the leftmost token a run consumed
Leftmost(r) == IF ConsumedBy(r) = {} THEN usize_MAX ELSE Min(ConsumedBy(r))

\* the caller's pool after the step is the pool the run left
PoolBecomes(r) ==
    /\ item_state' = r.args.item_state
    /\ remaining' = r.args.remaining
    /\ current' = r.args.current
    /\ scope' = r.args.scope

\* eval returned the value of the run and committed its pool
Wins(r) ==
    /\ result'.ok
    /\ result'.val = r.val
    /\ PoolBecomes(r)

\* the same pair of alternatives declared in the other order
Swapped == eval(ParseOrElse(parser.subs[2], parser.subs[1]), SelfArgs)

SameAs(r) ==
    /\ result'.ok = r.ok
    /\ result'.val = r.val
    /\ result'.err = r.err
    /\ PoolBecomes(r)

-----------------------------------------------------------------------------
\* C14 as stated: when both alternatives of or_else succeed, the alternative
\* that wins is the same for either declaration order, and it is one that
\* consumed the leftmost token.
OrElseWinnerIgnoresOrder ==
    [][ Evaluates("or_else") /\ BranchA.ok /\ BranchB.ok =>
          /\ SameAs(Swapped)
          /\ \/ Wins(BranchA) /\ Leftmost(BranchA) <= Leftmost(BranchB)
             \/ Wins(BranchB) /\ Leftmost(BranchB) <= Leftmost(BranchA)
      ]_vars

\* C14, amended: when both alternatives of or_else succeed and their
\* leftmost consumed tokens are at different positions, the alternative that
\* wins is the same for either declaration order: it is the one that
\* consumed the leftmost token (`-a 1 -b 2` yields a's value and `-b 2 -a 1`
\* yields b's value for both a.or_else(b) and b.or_else(a)).
OrElseLeftmostWins ==
    [][ Evaluates("or_else") /\ BranchA.ok /\ BranchB.ok
            /\ Leftmost(BranchA) # Leftmost(BranchB) =>
          /\ SameAs(Swapped)
          /\ Leftmost(BranchA) < Leftmost(BranchB) => Wins(BranchA)
          /\ Leftmost(BranchB) < Leftmost(BranchA) => Wins(BranchB)
      ]_vars

\* `-a 1 -b 2` given to b.or_else(a): a's value comes back
OrElseLeftmostWitness ==
    /\ pc = "done"
    /\ parser = ParseOrElse(b_arg, a_arg)
    /\ args = << <<"-", "a">>, <<"1">>, <<"-", "b">>, <<"2">> >>
    /\ result.ok
    /\ result.val = <<"1">>
    /\ remaining = 2

-----------------------------------------------------------------------------
\* C15 as stated: when exactly one of the two alternatives of or_else
\* succeeds, or_else returns that alternative's value and commits that
\* alternative's consumption, whichever was declared first.
OrElseOnlySuccessWins ==
    [][ Evaluates("or_else") =>
          /\ BranchA.ok /\ ~BranchB.ok => Wins(BranchA)
          /\ BranchB.ok /\ ~BranchA.ok => Wins(BranchB)
      ]_vars

\* C15, amended: when exactly one of the two alternatives of or_else
\* succeeds and the failing alternative did not end at a greater depth than
\* the succeeding one, or_else returns the succeeding alternative's value and
\* commits its consumption, whichever was declared first.
OrElseOnlySuccessWinsUnlessDeeper ==
    [][ Evaluates("or_else") =>
          /\ BranchA.ok /\ ~BranchB.ok /\ BranchB.args.depth <= BranchA.args.depth =>
               Wins(BranchA) /\ SameAs(Swapped)
          /\ BranchB.ok /\ ~BranchA.ok /\ BranchA.args.depth <= BranchB.args.depth =>
               Wins(BranchB) /\ SameAs(Swapped)
      ]_vars

\* `-b 2` given to a.or_else(b): only the second alternative succeeds
OrElseOnlySuccessWitness ==
    /\ pc = "done"
    /\ parser = ParseOrElse(a_arg, b_arg)
    /\ args = << <<"-", "b">>, <<"2">> >>
    /\ result.ok
    /\ result.val = <<"2">>
    /\ remaining = 0

\* C16: when the pools of the two branches of or_else end at different
\* depths, the branch with the greater depth wins outright: if it succeeded
\* its value is returned, if it failed its own error is returned, neither a
\* combination nor the other branch's success, and in both cases its pool is
\* what the caller's pool becomes.
OrElseDeeperWins ==
    [][ Evaluates("or_else") /\ BranchA.args.depth # BranchB.args.depth =>
          LET deeper == IF BranchA.args.depth > BranchB.args.depth THEN BranchA ELSE BranchB
          IN /\ result'.ok = deeper.ok
             /\ result'.val = deeper.val
             /\ result'.err = deeper.err
             /\ PoolBecomes(deeper)
             /\ depth' = deeper.args.depth
      ]_vars

\* `ab` given to positional.or_else(command ab with a required -b): the
\* command fails one level deeper, its error comes back although the
\* positional succeeded, and the pool is the command's
OrElseDeeperWitness ==
    /\ pc = "done"
    /\ parser = ParseOrElse(Positional("ARG"), Command(<<"a", "b">>, "ab", b_flag))
    /\ args = << <<"a", "b">> >>
    /\ ~result.ok
    /\ result.err = Missing(<<"-b">>)
    /\ depth = 1
    /\ remaining = 0

\* C17: when both branches of or_else fail at equal depth, or_else returns
\* one failure that combines the two, two Missing failures giving a Missing
\* that lists the expected items of both, and the caller's pool keeps the
\* statuses, remaining count, cursor and scope it had before the call.
OrElseBothFail ==
    [][ Evaluates("or_else") /\ ~BranchA.ok /\ ~BranchB.ok
            /\ BranchA.args.depth = BranchB.args.depth =>
          /\ ~result'.ok
          /\ result'.err = combine_with(BranchA.err, BranchB.err)
          /\ BranchA.err.kind = "Missing" /\ BranchB.err.kind = "Missing" =>
               result'.err = Missing(BranchA.err.items \o BranchB.err.items)
          /\ UNCHANGED <<items, item_state, remaining, current, scope, head, depth, conflicts>>
      ]_vars

\* `-a` given to (-a -b).or_else(-b B): the first branch consumes -a before
\* it fails; both failures are Missing and -a is still in the pool
OrElseBothFailWitness ==
    /\ pc = "done"
    /\ parser = ParseOrElse(ParseCon(<<a_flag, b_flag>>), b_arg)
    /\ args = << <<"-", "a">> >>
    /\ result.err = Missing(<<"-b", "-b B">>)
    /\ remaining = 1
    /\ At(item_state, 0).tag = "Unparsed"

\* C18: after or_else returns success the caller's pool has exactly the
\* consumption of the winning branch: what the winner consumed is Parsed,
\* what only the loser consumed is still present, and remaining goes down by
\* the number of tokens the winner consumed.
OrElseCommitsWinnerOnly ==
    [][ Evaluates("or_else") /\ result'.ok =>
          \E pair \in { <<BranchA, BranchB>>, <<BranchB, BranchA>> } :
             LET winner == pair[1]
                 loser == pair[2]
             IN /\ winner.ok
                /\ result'.val = winner.val
                /\ Consumed = ConsumedBy(winner)
                /\ \A ix \in ConsumedBy(loser) \ ConsumedBy(winner) :
                      /\ ItemState_present(At(item_state', ix))
                      /\ State_present(SelfArgs', ix)
                /\ remaining' = remaining - Cardinality(ConsumedBy(winner))
      ]_vars

\* `-b 2 -a 1` given to a.or_else(b): both succeed, b wins, -a 1 stays
OrElseCommitsWitness ==
    /\ pc = "done"
    /\ parser = ParseOrElse(a_arg, b_arg)
    /\ args = << <<"-", "b">>, <<"2">>, <<"-", "a">>, <<"1">> >>
    /\ result.ok
    /\ result.val = <<"2">>
    /\ remaining = 2
    /\ At(item_state, 2).tag # "Parsed"
    /\ At(item_state, 3).tag # "Parsed"

-----------------------------------------------------------------------------
(* The attempt of the inner parser that optional, many, some, fallback and *)
(* fallback_with end with                                                  *)

Attempt(a, vals, r) == [args |-> a, val |-> vals, run |-> r]

RECURSIVE Repeated(_, _, _, _)
\* many and some repeat the inner parser for as long as it succeeds and
\* consumes, or has given no value yet: the pool handed to the attempt that
\* ends the repetition, the values gathered before it, and that attempt
Repeated(inner, a, vals, n) ==
    LET r == eval(inner, a)
    IN IF r.ok /\ (len(r.args) < len(a) \/ n = 0)
       THEN Repeated(inner, r.args, vals \o r.val, n + 1)
       ELSE Attempt(a, vals, r)

LastAttempt ==
    IF parser.kind \in {"many", "some"}
    THEN Repeated(parser.subs[1], SelfArgs, <<>>, 0)
    ELSE Attempt(SelfArgs, <<>>, Inner)

\* a Missing failure or a Message failure marked recoverable
Recoverable(e) == e.kind = "Missing" \/ (e.kind = "Message" /\ e.recoverable)

-----------------------------------------------------------------------------
\* C19: optional, many and fallback swallow every Missing failure and every
\* Message failure marked recoverable of their inner parser: optional yields
\* None, many ends successfully with the values gathered so far, fallback
\* yields the default value.
SwallowsMissingAndRecoverable ==
    [][ last'.op = "eval" /\ parser.kind \in {"optional", "many", "fallback"} =>
          LET attempt == LastAttempt
          IN ~attempt.run.ok /\ Recoverable(attempt.run.err) =>
               /\ result'.ok
               /\ parser.kind = "optional" => result'.val = <<"None">>
               /\ parser.kind = "many" => result'.val = attempt.val
               /\ parser.kind = "fallback" => result'.val = parser.val
      ]_vars

\* C20: whenever optional, many, some, fallback or fallback_with swallows a
\* failure of the inner parser, the caller's pool is the pool it had right
\* before that attempt: statuses, remaining count, cursor and scope are the
\* same, also when the inner parser consumed tokens before failing.
SwallowRestoresPool ==
    [][ last'.op = "eval"
            /\ parser.kind \in {"optional", "many", "some", "fallback", "fallback_with"} =>
          LET attempt == LastAttempt
          IN ~attempt.run.ok /\ (result'.ok \/ result'.err # attempt.run.err) =>
               /\ item_state' = attempt.args.item_state
               /\ remaining' = attempt.args.remaining
               /\ current' = attempt.args.current
               /\ scope' = attempt.args.scope
      ]_vars

\* `-a 1 -a 2` given to many(catch) of an -a argument whose parse function
\* fails: the attempt consumed -a 1 before it failed, and nothing is consumed
SwallowRestoresWitness ==
    /\ pc = "done"
    /\ parser = ParseMany(ParseWith(a_arg, TRUE), TRUE)
    /\ args = << <<"-", "a">>, <<"1">>, <<"-", "a">>, <<"2">> >>
    /\ result.ok
    /\ result.val = <<>>
    /\ remaining = 4
    /\ \A ix \in 0..3 : At(item_state, ix).tag = "Unparsed"

-----------------------------------------------------------------------------
(* Vocabulary of the properties of adjacent and anywhere *)

\* the scan of anywhere on the caller's pool
Scan == anywhere_loop(parser, SelfArgs, ranges(SelfArgs), meta_items(parser), 0, {})

\* the start positions ranges() proposes
Starts == { c.start : c \in ranges(SelfArgs) }

\* the pool a candidate is really attempted on
CandidateArgs(start) == set_scope(SelfArgs, Range(start, Len(items)))

\* the one-token probe of a candidate consumes
Probed(start) ==
    LET scratch == restrict_to_range(CandidateArgs(start), Range(start, start + 1))
    IN len(eval(parser.subs[1], scratch).args) < len(scratch)

\* the real attempt of the inner parser at a candidate
Real(start) == eval(parser.subs[1], CandidateArgs(start))

\* the candidates the scan really attempts
Tried == Scan.tried

Termination(e) == e.kind = "ParseFailure"

\* eval returned this failure
Fails(e) == ~result'.ok /\ result'.err = e

-----------------------------------------------------------------------------
-----------------------------------------------------------------------------
-----------------------------------------------------------------------------
\* C23: with catch enabled on optional, many or some, whenever the inner
\* parser fails the pool is the one that attempt started from and the
\* failure is not returned: optional yields None, many ends with the values
\* gathered so far, some ends with them or, having none, with its own message.
CatchSwallowsEveryFailure ==
    [][ last'.op = "eval" /\ parser.kind \in {"optional", "many", "some"} /\ parser.catch =>
          LET attempt == LastAttempt
          IN ~attempt.run.ok =>
               /\ item_state' = attempt.args.item_state
               /\ remaining' = attempt.args.remaining
               /\ parser.kind = "optional" => result'.ok /\ result'.val = <<"None">>
               /\ parser.kind = "many" => result'.ok /\ result'.val = attempt.val
               /\ parser.kind = "some" =>
                     \/ result'.ok /\ result'.val = attempt.val
                     \/ Fails(Message(parser.val, TRUE))
      ]_vars

-----------------------------------------------------------------------------
\* eval ended with a panic instead of returning
Panicked == ~result'.ok /\ result'.err.kind = "Panic"

\* C24: many and some panic when their inner parser succeeds without
\* consuming any input, as many of a pure value does.
ManyPanicsWithoutProgress ==
    [][ last'.op = "eval" /\ parser.kind \in {"many", "some"} =>
          LET attempt == LastAttempt
          IN attempt.run.ok /\ len(attempt.run.args) = len(attempt.args) => Panicked
      ]_vars

-----------------------------------------------------------------------------
\* the run of the loop of many and some on the caller's pool
Loop == many_loop(parser, SelfArgs, <<>>, 0, len(SelfArgs))

\* C25: the loops of many and some terminate for every inner parser, one
\* that succeeds without consuming included: after the first value a further
\* value is collected only if remaining has strictly decreased since the
\* previous one (the values returned are those of Repeated, which stops at
\* the first attempt without progress), and the number of collected values
\* is at most the initial remaining count plus one.
ManyTerminates ==
    [][ last'.op = "eval" /\ parser.kind \in {"many", "some"} =>
          /\ result'.ok => result'.val = LastAttempt.val
          /\ Loop.n <= remaining + 1
      ]_vars

\* `-a 1 -a 2` given to many of or_else(-a argument, pure): two values are
\* collected from -a 1 and -a 2; on the empty pool pure succeeds without
\* consuming, its value is not collected and the loop ends
ManyTerminatesWitness ==
    /\ pc = "done"
    /\ parser = ParseMany(ParseOrElse(a_arg, ParsePure(<<"pure">>)), FALSE)
    /\ args = << <<"-", "a">>, <<"1">>, <<"-", "a">>, <<"2">> >>
    /\ result.ok
    /\ result.val = <<"1", "2">>
    /\ remaining = 0

-----------------------------------------------------------------------------
\* the narrowing loop of adjacent on the caller's pool, entered with the pool
\* the first run of the inner parser left
Narrowing == adjacent_loop(parser, SelfArgs, Range(0, Len(items)), Inner.args, 0)

-----------------------------------------------------------------------------
\* C27: after adjacent returns, with a value or with a failure, every token
\* outside the final narrowed block has the status it had in the caller's
\* pool before the call; only tokens of the block have been consumed.
AdjacentLeavesOutsideAlone ==
    [][ Evaluates("adjacent") =>
          LET block == Narrowing.guess
          IN \A ix \in 0..(Len(items) - 1) :
                ~Range_contains(block, ix) => At(item_state', ix) = At(item_state, ix)
      ]_vars

\* `-a 1 -h` given to adjacent of construct!(req_flag -a, help): the first
\* run consumes -a and -h, the block is 0..1, the final run consumes -a and
\* fails for want of -h, and -h outside the block is left unconsumed
AdjacentLeavesOutsideWitness ==
    /\ pc = "done"
    /\ parser = ParseAdjacent(ParseCon(<<a_flag, help>>))
    /\ args = << <<"-", "a">>, <<"1">>, <<"-", "h">> >>
    /\ ~result.ok
    /\ result.err = Missing(<<"-h">>)
    /\ scope = Range(0, 1)
    /\ At(item_state, 0).tag = "Parsed"
    /\ At(item_state, 2).tag = "Unparsed"

-----------------------------------------------------------------------------
\* the inner parser really succeeds at a candidate: its probe consumes and
\* its real attempt returns a value
Succeeds(start) == Probed(start) /\ Real(start).ok

\* the leftmost candidate the inner parser really succeeds at wins: eval
\* returns its value and commits its consumption, the tokens left of it keep
\* their status and no candidate to the right of it is attempted
LeftmostWins(start) ==
    LET r == Real(start)
    IN /\ result'.ok
       /\ result'.val = r.val
       /\ item_state' = r.args.item_state
       /\ \A ix \in 0..(start - 1) : At(item_state', ix) = At(item_state, ix)
       /\ \A other \in Tried : other <= start

\* C28 as stated: in anywhere the leftmost candidate start position at which
\* the inner parser really succeeds always wins.
AnywhereLeftmostSuccessWins ==
    [][ Evaluates("anywhere") =>
          \A start \in Starts :
             Succeeds(start) /\ (\A left \in Starts : left < start => ~Succeeds(left))
               => LeftmostWins(start)
      ]_vars


\* the real attempt at a candidate ends the scan with a failure: a help
\* request, or without catch a Message that leaves fewer tokens remaining
\* than the caller's pool has
Stops(start) ==
    /\ Probed(start)
    /\ LET r == Real(start)
       IN /\ ~r.ok
          /\ \/ Termination(r.err)
             \/ r.err.kind = "Message" /\ ~parser.catch /\ len(r.args) < len(SelfArgs)

\* C28: in anywhere the leftmost candidate start position at which the
\* inner parser really succeeds wins, unless the real attempt at a candidate
\* to its left has ended the scan with a failure.
AnywhereLeftmostSuccessWinsUnlessStopped ==
    [][ Evaluates("anywhere") =>
          \A start \in Starts :
             /\ Succeeds(start)
             /\ \A left \in Starts : left < start => ~Succeeds(left) /\ ~Stops(left)
             => LeftmostWins(start)
      ]_vars

\* `-a -a 1` given to anywhere of construct!(req_flag -a, positional): the
\* attempt at 0 consumes -a and fails for want of a value after it, the
\* attempt at 1 succeeds, its -a and 1 are consumed and the -a at 0 is not
AnywhereLeftmostWitness ==
    /\ pc = "done"
    /\ parser = ParseAnywhere(a_with_value, FALSE)
    /\ args = << <<"-", "a">>, <<"-", "a">>, <<"1">> >>
    /\ result.ok
    /\ result.val = <<"-a", "1">>
    /\ At(item_state, 0).tag = "Unparsed"
    /\ At(item_state, 1).tag = "Parsed"
    /\ At(item_state, 2).tag = "Parsed"

-----------------------------------------------------------------------------
\* the scan runs out of candidates: no real attempt succeeds or ends it
Exhausted == \A start \in Starts : ~Succeeds(start) /\ ~Stops(start)

\* the inner parser on an empty pool
OnEmpty == eval(parser.subs[1], NoArgs)

MissingAt == { start \in Starts : Probed(start) /\ Real(start).err.kind = "Missing" }

\* what the caller's pool has remaining above what the attempt left
Progress(start) == len(SelfArgs) - len(Real(start).args)

\* the best missing-item record of the scan: the items of the Missing with
\* the most progress, the rightmost of them, and the items of the parser's
\* own meta when no attempt fails with Missing
BestMissing ==
    IF MissingAt = {} THEN meta_items(parser)
    ELSE LET best == CHOOSE start \in MissingAt :
                        \A other \in MissingAt :
                           \/ Progress(other) < Progress(start)
                           \/ Progress(other) = Progress(start) /\ other <= start
         IN Real(best).err.items

-----------------------------------------------------------------------------
\* what anywhere returns once the candidates are exhausted
AfterScan ==
    IF OnEmpty.ok THEN result'.ok /\ result'.val = OnEmpty.val
    ELSE Fails(Missing(BestMissing))

\* the scan goes on after the attempt at start: the next candidate whose
\* probe consumes is attempted, and if there is none the scan is exhausted
Continues(start) ==
    LET later == { next \in Starts : next > start /\ Probed(next) }
    IN IF later = {} THEN AfterScan ELSE Min(later) \in Tried

\* the attempt at start ends the scan and its failure is what eval returns,
\* the caller's pool being as it was
StopsWith(start) ==
    /\ Fails(Real(start).err)
    /\ \A other \in Tried : other <= start
    /\ item_state' = item_state

\* C30 as stated: without catch, a real attempt that consumed a token and
\* failed with a Message not marked recoverable stops the scan and is
\* returned, while a recoverable failure, Missing or a Message marked
\* recoverable, lets the scan continue; with catch no Message failure stops
\* the scan or is returned.
AnywhereStopsOnFatalOnly ==
    [][ Evaluates("anywhere") =>
          \A start \in Tried :
             LET r == Real(start)
             IN ~r.ok =>
                  /\ ~parser.catch /\ r.err.kind = "Message" /\ ~r.err.recoverable
                        /\ ConsumedBy(r) # {} => StopsWith(start)
                  /\ ~parser.catch /\ Recoverable(r.err) => Continues(start)
                  /\ parser.catch /\ r.err.kind = "Message" =>
                        Continues(start) /\ (result'.ok \/ result'.err.kind # "Message")
      ]_vars

\* C30: without catch, a real attempt that consumed a token and failed with
\* a Message, marked recoverable or not, stops the scan and is returned,
\* while a Missing failure lets the scan continue; with catch no Message
\* failure stops the scan or is returned.
AnywhereStopsOnMessage ==
    [][ Evaluates("anywhere") =>
          \A start \in Tried :
             LET r == Real(start)
             IN ~r.ok =>
                  /\ ~parser.catch /\ r.err.kind = "Message" /\ ConsumedBy(r) # {} =>
                        StopsWith(start)
                  /\ r.err.kind = "Missing" => Continues(start)
                  /\ parser.catch /\ r.err.kind = "Message" =>
                        Continues(start) /\ (result'.ok \/ result'.err.kind # "Message")
      ]_vars

\* `-a 1 -a 2` given to anywhere of construct!(req_flag -a, fail): the attempt
\* at 0 consumes -a and fails with the Message of fail, marked recoverable,
\* which anywhere returns without attempting the -a at 2
AnywhereStopsWitness ==
    /\ pc = "done"
    /\ parser = ParseAnywhere(a_then_fail, FALSE)
    /\ args = << <<"-", "a">>, <<"1">>, <<"-", "a">>, <<"2">> >>
    /\ ~result.ok
    /\ result.err = Message(<<"fail">>, TRUE)
    /\ remaining = 4

-----------------------------------------------------------------------------
\* C31: when both alternatives of or_else succeed at equal depth and the
\* leftmost token each consumed is at the same index, or neither consumed
\* any token, the first-declared alternative wins: its value is returned
\* and its pool is committed.
OrElseFirstWinsTie ==
    [][ Evaluates("or_else") /\ BranchA.ok /\ BranchB.ok
            /\ BranchA.args.depth = BranchB.args.depth
            /\ Leftmost(BranchA) = Leftmost(BranchB) =>
          Wins(BranchA)
      ]_vars

\* `-a 1` given to or_else(req_flag -a, argument -a): both alternatives
\* consume the token at 0, the flag comes back and `1` is still in the pool
OrElseFirstWinsTieWitness ==
    /\ pc = "done"
    /\ parser = ParseOrElse(a_flag, a_arg)
    /\ args = << <<"-", "a">>, <<"1">> >>
    /\ result.ok
    /\ result.val = a_flag.val
    /\ remaining = 1
    /\ ItemState_present(At(item_state, 1))

-----------------------------------------------------------------------------
\* the indices at which exactly one of this pool and the other has consumed
\* the token
ConsumedByOne(other) ==
    { ix \in 0..(Len(items) - 1) :
        ItemState_parsed(At(item_state, ix)) # ItemState_parsed(At(other, ix)) }

\* other.pick_winner(self), the same comparison seen from the other pool
Reverse(other) == pick_winner([Self EXCEPT !.item_state = other], item_state)

\* C32: pick_winner is decided by the first index at which exactly one of
\* the two pools has consumed the token: it returns (true, that index) if
\* self consumed it, (false, that index) if other did, and (true, none) if
\* the two pools consumed the same tokens; for pools that differ in what
\* they consumed, a.pick_winner(b) and b.pick_winner(a) report the same
\* index and opposite winners.
PickWinnerFirstDifference ==
    [][ last'.op = "pick_winner" =>
          LET other == last'.val
              first == Min(ConsumedByOne(other))
          IN IF ConsumedByOne(other) = {}
             THEN last'.res = "self" /\ last'.pos = None
             ELSE /\ last'.pos = first
                  /\ ItemState_parsed(At(item_state, first)) => last'.res = "self"
                  /\ ItemState_parsed(At(other, first)) => last'.res = "other"
                  /\ Reverse(other).ix = last'.pos
                  /\ Reverse(other).me = (last'.res = "other")
      ]_vars

\* a pool that consumed the token at 1 against a clone that consumed the
\* tokens at 0 and 2: the other pool wins at 0
PickWinnerWitness ==
    /\ last.op = "pick_winner"
    /\ Len(items) = 3
    /\ ItemState_present(At(item_state, 0))
    /\ ItemState_parsed(At(item_state, 1))
    /\ ItemState_present(At(item_state, 2))
    /\ last.val = <<Parsed, Unparsed, Parsed>>
    /\ last.res = "other"
    /\ last.pos = 0

-----------------------------------------------------------------------------
\* the pool after the step
After ==
    [items |-> items', item_state |-> item_state', remaining |-> remaining',
     current |-> current', scope |-> scope']

\* two calls of a primitive return the same
SameReturn(r1, r2) ==
    /\ r1.res = r2.res
    /\ r1.pos = r2.pos
    /\ r1.val = r2.val
    /\ r1.strict = r2.strict

\* every take_* call returns after the step what it returns before it
TakesReturnTheSame ==
    /\ \A named \in NamedArgs :
          /\ SameReturn(take_flag(After, named), take_flag(Self, named))
          /\ \A adjacent \in BOOLEAN :
                SameReturn(take_arg(After, named, adjacent), take_arg(Self, named, adjacent))
    /\ SameReturn(take_positional_word(After), take_positional_word(Self))
    /\ \A word \in Words : SameReturn(take_cmd(After, word), take_cmd(Self, word))

-----------------------------------------------------------------------------
\* the range adjacent_scope returns for this pool compared to original
\* starts at the start of the scope, holds only tokens consumed in this pool
\* or in the original, and is not the scope the pool has
Refines(original) ==
    LET r == adjacent_scope(Self, original)
    IN r.some =>
         /\ r.range.start = scope.start
         /\ \A ix \in r.range.start..(r.range.end - 1) :
               \/ ItemState_parsed(At(item_state, ix))
               \/ ItemState_parsed(At(original, ix))
         /\ r.range # scope

\* C34 as stated: whenever adjacent_scope returns a new range for a pool,
\* that range starts at the current scope's start, contains only indices
\* consumed in self or in the original, lies inside the current scope (its
\* end does not exceed the current scope's end), and differs from the
\* current scope.
AdjacentScopeShrinks ==
    pc = "built" =>
       \A original \in Originals :
          /\ Refines(original)
          /\ adjacent_scope(Self, original).some =>
                adjacent_scope(Self, original).range.end <= scope.end

-----------------------------------------------------------------------------
\* the first consumed token at or after start, the length of the token list
\* when there is none
FirstConsumedFrom(start) ==
    LET consumed == { ix \in start..(Len(items) - 1) : ItemState_parsed(At(item_state, ix)) }
    IN IF consumed = {} THEN Len(items) ELSE Min(consumed)

\* C35 as stated: for a non-empty pool, adjacently_available_from(start)
\* returns the maximal contiguous block of available tokens beginning at
\* start: a range start..end in which no index is consumed and where end is
\* the index of the first consumed token at or after start, or the length
\* of the token list when no token from start onward is consumed.
AdjacentlyAvailableIsMaximal ==
    pc = "built" /\ Len(items) > 0 =>
       \A start \in 0..(Len(items) - 1) :
          LET r == adjacently_available_from(Self, start)
          IN /\ r.some
             /\ r.range.start = start
             /\ \A ix \in r.range.start..(r.range.end - 1) :
                   ~ItemState_parsed(At(item_state, ix))
             /\ r.range.end = FirstConsumedFrom(start)

-----------------------------------------------------------------------------
\* C36 as stated: the candidate start positions of ranges() are exactly the
\* present tokens inside the caller's active scope, and the scope of each
\* candidate pool is contained in the caller's active scope: no candidate
\* starts before the caller's scope start or reaches past its scope end.
\* (The iterator visits the starts in increasing order, cur growing by one
\* at each step.)
RangesStayInScope ==
    pc = "built" =>
       /\ { candidate.start : candidate \in ranges(Self) } = PresentInScope
       /\ \A candidate \in ranges(Self) :
             /\ candidate.args.scope.start = candidate.start
             /\ scope.start <= candidate.args.scope.start
             /\ candidate.args.scope.end <= scope.end

-----------------------------------------------------------------------------
\* C37: whenever anywhere returns a Missing or a Message failure, the
\* caller's pool has the token statuses, the scope and the remaining count
\* it had before the call; only a success or a Termination changes the
\* caller's pool.
AnywhereFailureLeavesPool ==
    [][ Evaluates("anywhere") =>
          /\ ~result'.ok /\ result'.err.kind \in {"Missing", "Message"} =>
                /\ item_state' = item_state
                /\ scope' = scope
                /\ remaining' = remaining
          /\ item_state' # item_state \/ scope' # scope \/ remaining' # remaining =>
                result'.ok \/ Termination(result'.err)
      ]_vars

\* `-a -b -a -b 1` given to anywhere of construct!(req_flag -a, argument -b):
\* the attempt at 0 consumes the first -a and fails on the -b that has no
\* value after it; anywhere returns that Message and all five tokens are
\* still in the caller's pool
AnywhereFailureLeavesPoolWitness ==
    /\ pc = "done"
    /\ parser = ParseAnywhere(ParseCon(<<a_flag, b_arg>>), FALSE)
    /\ args = << <<"-", "a">>, <<"-", "b">>, <<"-", "a">>, <<"-", "b">>, <<"1">> >>
    /\ ~result.ok
    /\ result.err.kind = "Message"
    /\ \A ix \in 0..4 : At(item_state, ix) = Unparsed
    /\ scope = Range(0, 5)
    /\ remaining = 5

-----------------------------------------------------------------------------
\* the number of tokens the real attempt at a candidate consumed
ConsumedAt(start) == Cardinality(ConsumedBy(Real(start)))

\* C38 as stated: when no candidate of anywhere succeeds, the Missing
\* failure anywhere returns lists the expected items of the candidate whose
\* real attempt consumed the greatest number of tokens before it failed with
\* Missing; a candidate that consumed fewer tokens never replaces the record
\* of one that consumed more.
AnywhereKeepsMostConsumed ==
    [][ Evaluates("anywhere") /\ Exhausted /\ ~OnEmpty.ok /\ MissingAt # {} =>
          \E best \in MissingAt :
             /\ \A other \in MissingAt : ConsumedAt(other) <= ConsumedAt(best)
             /\ Fails(Missing(Real(best).err.items))
      ]_vars

-----------------------------------------------------------------------------
\* the token of raw item j, for a j at or after the marker m
TokenOf(m, j) == TokensBefore(m) + (j - m)

\* the command line -b -- -a
FlagDashesFlag == << <<"-", "b">>, <<"-", "-">>, <<"-", "a">> >>

\* C39: only the first `--` acts as the marker: its token is Parsed from
\* construction on, is not counted in remaining and is returned by no
\* primitive, while every later `--` is a PositionalWord token that is
\* counted in remaining and that take_positional_word returns; for
\* `-b -- -a` the pool is empty after taking the flag b and one positional.
OnlyFirstDoubleDashIsMarker ==
    pc # "start" =>
       /\ \A m \in Marker :
             /\ At(items, TokenOf(m, m)) = PosWord(DoubleDash)
             /\ At(item_state, TokenOf(m, m)) = Parsed
             /\ last.op = "construct" => remaining = Len(items) - 1
             /\ Succeeded(last) => TokenOf(m, m) \notin Taken(last)
             /\ \A j \in DoubleDashes \ {m} :
                   /\ At(items, TokenOf(m, j)) = PosWord(DoubleDash)
                   /\ last.op = "construct" => At(item_state, TokenOf(m, j)) = Unparsed
                   /\ PresentInScope # {} /\ TokenOf(m, j) = Min(PresentInScope) =>
                         LET r == take_positional_word(Self)
                         IN /\ r.res = "Ok(Some)"
                            /\ r.pos = TokenOf(m, j)
                            /\ r.val = DoubleDash
                            /\ r.strict
                            /\ r.self.remaining = remaining - 1
       /\ args = FlagDashesFlag /\ last.op = "construct" =>
             LET flag == take_flag(Self, NamedArg({"b"}, {}))
                 word == take_positional_word(flag.self)
             IN /\ flag.res = "true"
                /\ word.res = "Ok(Some)"
                /\ word.val = <<"-", "a">>
                /\ is_empty(word.self)

\* `-- --`: take_positional_word returned the second `--`, the first was
\* never in the pool, and the pool is empty
OnlyFirstDoubleDashWitness ==
    /\ args = <<DoubleDash, DoubleDash>>
    /\ last.op = "take_positional_word"
    /\ last.res = "Ok(Some)"
    /\ last.pos = 1
    /\ last.val = DoubleDash
    /\ item_state = <<Parsed, Parsed>>
    /\ scope = Range(0, 2)
    /\ remaining = 0

====
